---- MODULE Spec2Model ----
(***************************************************************************)
(* A model of manage_tdx_mark: the mark.dat text format (parse_content,    *)
(* save_data), stock-code normalisation, the in-memory section map and its *)
(* update rules, the LRU cache, the manager lock, and the chunked safe     *)
(* batch update with its backups and rollback.                             *)
(*                                                                         *)
(* Text is modelled as a sequence of characters; a character is a string.  *)
(* "U+FF11" (FULLWIDTH DIGIT ONE) is one character for which Python's      *)
(* str.isdigit() is true; "U+1F600" is one character that the gbk codec    *)
(* cannot encode.                                                          *)
(***************************************************************************)
EXTENDS Integers, Sequences, FiniteSets, TLC

VARIABLES
    \* --- text round trip (parse_content / save_data) ---
    content,        \* the text handed to parse_content
    parsed,         \* the section map parse_content returned
    written,        \* the text save_data generated for it
    reparsed,       \* parse_content of the written text
    tpc,            \* position in the round trip
    \* --- code normalisation ---
    stock_code,     \* the input of convert_to_8digit
    once,           \* result of convert_to_8digit(stock_code)
    twice,          \* result of convert_to_8digit applied to that result
    cpc,            \* position
    \* --- the in-memory section map and its operations ---
    data,           \* Dict[section, Dict[full_code, value]]
    data_before,    \* the map as it was before the last operation
    op,             \* the last operation: its name, arguments and return value
    applied,        \* history: per fresh code, the TIPWORD values applied so far
    nops,           \* number of operations applied
    \* --- LRUCache ---
    max_size,       \* LRUCache.max_size
    cache,          \* LRUCache._cache: key -> CacheEntry
    access_order,   \* LRUCache._access_order
    now,            \* datetime.now(), in seconds
    call,           \* the last completed call: name, key, time and result
    before,         \* _cache and the recency order as they were before it
    recency,        \* history: the cached keys, least recently put or hit first
    ncalls,         \* number of calls made
    \* --- threads calling one LRUCache ---
    pc,             \* per thread: the statement it is at
    frame,          \* per thread: the arguments and locals of its call
    lock_owner,     \* LRUCache._lock: the thread holding it, or NoThread
    \* --- threads calling process_file and safe_update of one manager ---
    stack,          \* per thread: the positions of its active calls, innermost last
    update_func,    \* per thread: what the function passed to safe_update does
    mgr_lock,       \* TdxMarkManager._lock: the thread holding it, or NoThread
    \* --- safe_batch_update on the live file and the backup directory ---
    live,           \* mark.dat: [exists, content, mtime]
    backups,        \* backup directory: timestamp in the file name -> [content, mtime]
    clock,          \* datetime.now(), in seconds
    phase,          \* "idle", "running", "returned", "raised"
    args,           \* the arguments of the call: updates, section, config
    chunks,         \* the chunks not processed yet
    result,         \* SafeBatchResult
    chunk_log,      \* per processed chunk: the file before, the backup taken, the data to save
    at_call,        \* the file and the backup directory when the call was made
    io,             \* the file operations made since the call, in order
    \* --- safe_update on the live file and the backup directory ---
    su_func,        \* the update callable: what it does to the file, what it returns
    su_result,      \* the dict safe_update returned
    su_trace,       \* what happened inside: did the callable run, was its backup there
    \* --- create_backup called again and again ---
    created,        \* what the last create_backup returned: [ok, path]
    \* --- compare_files on two files, in both directions ---
    file_a,         \* one file: [exists, content, mtime]
    file_b,         \* the other file
    a_vs_b,         \* what the manager of file_a returned for compare_files(file_b)
    b_vs_a,         \* what the manager of file_b returned for compare_files(file_a)
    \* --- test_functionality on the live file and the backup directory ---
    test_results,   \* the dict test_functionality returned
    attempted,      \* history: the checks it attempted, in order
    \* --- validate_stock_code ---
    code_arg,       \* the code argument
    allow_short_arg,\* the allow_short argument
    validated,      \* what the call did: not called yet, raised, or the value returned
    \* --- safe_batch_query through one manager ---
    cached_all_data,\* TdxMarkManager._cached_all_data: None or the projection
    query,          \* the list passed to the last safe_batch_query
    query_result,   \* what that call did: raised, or the list returned
    \* --- the operation history of one manager ---
    operation_history, \* TdxMarkManager._operation_history: the entries, oldest first
    trail           \* the audit_trail call made last, if none was recorded since: limit, history, list

textVars == <<content, parsed, written, reparsed, tpc>>
codeVars == <<stock_code, once, twice, cpc>>
dataVars == <<data, data_before, op, applied, nops>>
lruVars == <<max_size, cache, access_order, now, call, before, recency, ncalls>>
thrVars == <<pc, frame, lock_owner>>
mgrVars == <<stack, update_func, mgr_lock>>
batchVars == <<live, backups, clock, phase, args, chunks, result, chunk_log, at_call, io>>
suVars == <<su_func, su_result, su_trace>>
bkVars == <<created>>
cmpVars == <<file_a, file_b, a_vs_b, b_vs_a>>
tfVars == <<test_results, attempted>>
valVars == <<code_arg, allow_short_arg, validated>>
\* the groups of the single-call specifications further down
queryVars == <<cached_all_data, query, query_result>>
histVars == <<operation_history, trail>>
extraVars == <<valVars, queryVars, histVars>>
vars ==
    <<textVars, codeVars, dataVars, lruVars, thrVars, mgrVars, batchVars, suVars, bkVars,
      cmpVars, tfVars, extraVars>>

----------------------------------------------------------------------------
(* Python str helpers, on sequences of characters *)

AsciiDigits == {"0", "1", "2", "3", "4", "5", "6", "7", "8", "9"}

\* str.isdigit() of one character
IsDigitChar(c) == c \in AsciiDigits \cup {"U+FF11"}

\* the characters str.strip() removes
IsSpaceChar(c) == c \in {" ", "\t", "\n", "\r"}

\* ord(c), for the characters the model uses
CodePoint(c) ==
    CASE c = "\t" -> 9 [] c = "\n" -> 10 [] c = "\r" -> 13 [] c = " " -> 32
      [] c = "/" -> 47
      [] c = "0" -> 48 [] c = "1" -> 49 [] c = "2" -> 50 [] c = "3" -> 51
      [] c = "4" -> 52 [] c = "5" -> 53 [] c = "6" -> 54 [] c = "7" -> 55
      [] c = "8" -> 56 [] c = "9" -> 57
      [] c = "=" -> 61
      [] c = "A" -> 65 [] c = "B" -> 66 [] c = "C" -> 67 [] c = "D" -> 68
      [] c = "E" -> 69 [] c = "I" -> 73 [] c = "K" -> 75 [] c = "L" -> 76
      [] c = "M" -> 77 [] c = "O" -> 79 [] c = "P" -> 80 [] c = "R" -> 82
      [] c = "T" -> 84 [] c = "W" -> 87 [] c = "X" -> 88
      [] c = "[" -> 91 [] c = "]" -> 93
      [] c = "a" -> 97 [] c = "i" -> 105 [] c = "p" -> 112 [] c = "t" -> 116
      [] c = "U+FF11" -> 65297
      [] c = "U+1F600" -> 128512

\* str.upper() of one character
UpperChar(c) ==
    CASE c = "a" -> "A" [] c = "i" -> "I" [] c = "p" -> "P" [] c = "t" -> "T"
      [] OTHER -> c

Upper(s) == [i \in 1..Len(s) |-> UpperChar(s[i])]

\* s.isdigit(): non-empty and every character a digit
IsDigit(s) == Len(s) > 0 /\ \A i \in 1..Len(s) : IsDigitChar(s[i])

RECURSIVE LStrip(_)
LStrip(s) ==
    IF s = <<>> THEN s
    ELSE IF IsSpaceChar(Head(s)) THEN LStrip(Tail(s)) ELSE s

RECURSIVE RStrip(_)
RStrip(s) ==
    IF s = <<>> THEN s
    ELSE IF IsSpaceChar(s[Len(s)]) THEN RStrip(SubSeq(s, 1, Len(s) - 1)) ELSE s

\* s.strip()
Strip(s) == RStrip(LStrip(s))

\* s.split(sep) for a one-character separator
Split(s, sep) ==
    LET RECURSIVE go(_, _, _)
        go(i, cur, acc) ==
            IF i > Len(s) THEN Append(acc, cur)
            ELSE IF s[i] = sep THEN go(i + 1, <<>>, Append(acc, cur))
            ELSE go(i + 1, Append(cur, s[i]), acc)
    IN go(1, <<>>, <<>>)

\* sep.join(parts)
RECURSIVE Join(_, _)
Join(parts, sep) ==
    IF parts = <<>> THEN <<>>
    ELSE IF Len(parts) = 1 THEN parts[1]
    ELSE parts[1] \o <<sep>> \o Join(Tail(parts), sep)

\* the first index of character c in s, 0 when absent
IndexOf(s, c) ==
    IF \E i \in 1..Len(s) : s[i] = c
    THEN CHOOSE i \in 1..Len(s) : s[i] = c /\ \A j \in 1..(i - 1) : s[j] # c
    ELSE 0

\* s < t in Python's string order (by code point, a prefix first)
RECURSIVE StrLess(_, _)
StrLess(s, t) ==
    IF t = <<>> THEN FALSE
    ELSE IF s = <<>> THEN TRUE
    ELSE IF Head(s) = Head(t) THEN StrLess(Tail(s), Tail(t))
    ELSE CodePoint(Head(s)) < CodePoint(Head(t))

\* sorted(keys) of a finite set of strings
RECURSIVE Sorted(_)
Sorted(S) ==
    IF S = {} THEN <<>>
    ELSE LET m == CHOOSE x \in S : \A y \in S \ {x} : StrLess(x, y)
         IN <<m>> \o Sorted(S \ {m})

----------------------------------------------------------------------------
(* dict helpers: a dict is a function; insertion order is not modelled for *)
(* the section map, whose readers sort or look up by key                   *)

EmptyDict == [k \in {} |-> <<>>]

DictPut(d, k, v) == [x \in DOMAIN d \cup {k} |-> IF x = k THEN v ELSE d[x]]

DictDel(d, k) == [x \in DOMAIN d \ {k} |-> d[x]]

----------------------------------------------------------------------------
(* constants.py *)

STOCK_CODE_LENGTH == 8
STOCK_CODE_SHORT_LENGTH == 6
MARKET_CODE_LENGTH == 2

MARK == <<"M", "A", "R", "K">>
TIP == <<"T", "I", "P">>
TIPWORD == <<"T", "I", "P", "W", "O", "R", "D">>
TIPCOLOR == <<"T", "I", "P", "C", "O", "L", "O", "R">>
TIME == <<"T", "I", "M", "E">>

\* TdxMarkManager.supported_sections, in its order
supported_sections == <<MARK, TIP, TIPWORD, TIPCOLOR, TIME>>

SectionSet == {supported_sections[i] : i \in 1..Len(supported_sections)}

TIPWORD_SEPARATOR == "/"

----------------------------------------------------------------------------
(* TdxMarkManager.parse_content *)

\* one line of the loop: st = [data, cur], cur = <<>> (None) or <<section>>
ParseLine(st, raw) ==
    LET line == Strip(raw) IN
    IF line = <<>> THEN st
    ELSE IF Head(line) = "[" /\ line[Len(line)] = "]"
    THEN LET section_name == SubSeq(line, 2, Len(line) - 1) IN
         IF section_name \in SectionSet
         THEN [data |-> DictPut(st.data, section_name, EmptyDict),
               cur |-> <<section_name>>]
         ELSE [st EXCEPT !.cur = <<>>]
    ELSE IF IndexOf(line, "=") > 0 /\ st.cur # <<>>
    THEN LET eq == IndexOf(line, "=")
             key == Strip(SubSeq(line, 1, eq - 1))
             value == Strip(SubSeq(line, eq + 1, Len(line)))
             sec == st.cur[1]
         IN IF Len(key) = 8 /\ IsDigit(key)
            THEN [st EXCEPT !.data = DictPut(st.data, sec, DictPut(st.data[sec], key, value))]
            ELSE st
    ELSE st

RECURSIVE ParseLines(_, _)
ParseLines(st, lines) ==
    IF lines = <<>> THEN st
    ELSE ParseLines(ParseLine(st, Head(lines)), Tail(lines))

parse_content(text) ==
    ParseLines([data |-> EmptyDict, cur |-> <<>>], Split(text, "\n")).data

----------------------------------------------------------------------------
(* TdxMarkManager.save_data: the text it generates (lines 979-996) *)

\* the code=value lines of one section, sorted by code, blank values skipped
RECURSIVE SectionLines(_, _)
SectionLines(records, codes) ==
    IF codes = <<>> THEN <<>>
    ELSE LET code == Head(codes)
             rest == SectionLines(records, Tail(codes))
         IN IF Strip(records[code]) # <<>>
            THEN <<code \o <<"=">> \o records[code]>> \o rest
            ELSE rest

SaveHeaderNoBracket(section) == <<"[">> \o section

\* f'[{section}]'
SaveHeader(section) == <<"[">> \o section \o <<"]">>

RECURSIVE ContentLines(_, _)
ContentLines(d, sections) ==
    IF sections = <<>> THEN <<>>
    ELSE LET section == Head(sections)
             rest == ContentLines(d, Tail(sections))
         IN IF section \in DOMAIN d /\ DOMAIN d[section] # {}
            THEN <<SaveHeader(section)>>
                 \o SectionLines(d[section], Sorted(DOMAIN d[section]))
                 \o <<<<>>>> \o rest
            ELSE rest

save_content(d) == Join(ContentLines(d, supported_sections), "\n")

----------------------------------------------------------------------------
(* TdxMarkManager.convert_to_8digit: [ok, value]; ok = FALSE is ValueError *)

Raised == [ok |-> FALSE, value |-> <<>>]
Returned(v) == [ok |-> TRUE, value |-> v]

ConvertNoBeijing(code) ==
    IF Len(code) = 8 /\ IsDigit(code) THEN Returned(code)
    ELSE IF Len(code) # 6 \/ ~IsDigit(code) THEN Raised
    ELSE IF code[1] = "6" THEN Returned(<<"0", "1">> \o code)
    ELSE IF code[1] \in {"0", "3"} THEN Returned(<<"0", "0">> \o code)
    ELSE Raised

convert_to_8digit(code) ==
    IF Len(code) = 8 /\ IsDigit(code) THEN Returned(code)
    ELSE IF Len(code) # 6 \/ ~IsDigit(code) THEN Raised
    ELSE IF code[1] = "6" THEN Returned(<<"0", "1">> \o code)
    ELSE IF code[1] \in {"0", "3"} THEN Returned(<<"0", "0">> \o code)
    ELSE IF code[1] \in {"4", "8"} THEN Returned(<<"0", "2">> \o code)
    ELSE Raised

----------------------------------------------------------------------------
(* validators.validate_section: [ok, value]; ok = FALSE is ValidationError *)

validate_section(section) ==
    IF section = <<>> THEN Raised
    ELSE LET name == Upper(Strip(section)) IN
         IF name \in SectionSet THEN Returned(name) ELSE Raised

----------------------------------------------------------------------------
(* data_service.py: the update strategies and update_section_value *)

\* data.get(section, {}).get(full_code, '')
GetValue(d, section, full_code) ==
    IF section \in DOMAIN d /\ full_code \in DOMAIN d[section]
    THEN d[section][full_code]
    ELSE <<>>

\* if section not in data: data[section] = {}
EnsureSection(d, section) ==
    IF section \in DOMAIN d THEN d ELSE DictPut(d, section, EmptyDict)

SetValue(d, section, full_code, value) ==
    LET d1 == EnsureSection(d, section)
    IN DictPut(d1, section, DictPut(d1[section], full_code, value))

\* DirectUpdateStrategy.execute
DirectUpdate(section, full_code, value, d) ==
    [data |-> SetValue(d, section, full_code, value), ret |-> TRUE]

TipwordMergeDedup(full_code, value, d) ==
    LET current_value == GetValue(d, TIPWORD, full_code)
        parts == Split(current_value, TIPWORD_SEPARATOR)
        new_value == IF current_value # <<>>
                     THEN IF \E i \in 1..Len(parts) : parts[i] = value
                          THEN current_value
                          ELSE current_value \o <<TIPWORD_SEPARATOR>> \o value
                     ELSE value
    IN [data |-> SetValue(d, TIPWORD, full_code, new_value), ret |-> TRUE]

\* TipwordMergeStrategy.execute
TipwordMerge(full_code, value, d) ==
    LET current_value == GetValue(d, TIPWORD, full_code)
        new_value == IF current_value # <<>>
                     THEN current_value \o <<TIPWORD_SEPARATOR>> \o value
                     ELSE value
    IN [data |-> SetValue(d, TIPWORD, full_code, new_value), ret |-> TRUE]

\* DataOperationService.update_section_value: ret is OperationResult.success
update_section_value(code, section, value, d) ==
    LET full == convert_to_8digit(code)
        sec == validate_section(section)
    IN IF ~full.ok \/ ~sec.ok THEN [data |-> d, ret |-> FALSE]
       ELSE IF sec.value = TIPWORD THEN TipwordMerge(full.value, value, d)
       ELSE DirectUpdate(sec.value, full.value, value, d)

----------------------------------------------------------------------------
(* tdx_mark_manager.py: update_tipword and merge_duplicate_tipwords *)

UpdateTipwordReplace(code, new_tipword, d) ==
    LET full == convert_to_8digit(code)
    IN IF ~full.ok THEN [data |-> d, ret |-> FALSE]
       ELSE [data |-> SetValue(d, TIPWORD, full.value, new_tipword), ret |-> TRUE]

\* TdxMarkManager.update_tipword
update_tipword(code, new_tipword, d) ==
    LET full == convert_to_8digit(code)
    IN IF ~full.ok THEN [data |-> d, ret |-> FALSE]
       ELSE LET current_value == GetValue(d, TIPWORD, full.value)
                new_value == IF current_value # <<>>
                             THEN current_value \o <<"/">> \o new_tipword
                             ELSE new_tipword
            IN [data |-> SetValue(d, TIPWORD, full.value, new_value), ret |-> TRUE]

\* [part.strip() for part in tipword.split('/') if part.strip()]
RECURSIVE StrippedParts(_)
StrippedParts(parts) ==
    IF parts = <<>> THEN <<>>
    ELSE IF Strip(Head(parts)) # <<>>
         THEN <<Strip(Head(parts))>> \o StrippedParts(Tail(parts))
         ELSE StrippedParts(Tail(parts))

\* the parts in order, each kept at its first occurrence
RECURSIVE UniqueParts(_, _)
UniqueParts(parts, seen) ==
    IF parts = <<>> THEN <<>>
    ELSE IF Head(parts) \in seen THEN UniqueParts(Tail(parts), seen)
    ELSE <<Head(parts)>> \o UniqueParts(Tail(parts), seen \cup {Head(parts)})

\* all the tipwords of one group, split, stripped and deduplicated
RECURSIVE GroupParts(_)
GroupParts(tipwords) ==
    IF tipwords = <<>> THEN <<>>
    ELSE StrippedParts(Split(Head(tipwords), "/")) \o GroupParts(Tail(tipwords))

\* code_groups: one list per key of the dict, holding that key's one value
CodeGroups(tipword_data) == [c \in DOMAIN tipword_data |-> <<tipword_data[c]>>]

\* TdxMarkManager.merge_duplicate_tipwords: ret is merged_count
merge_duplicate_tipwords(d) ==
    IF TIPWORD \notin DOMAIN d THEN [data |-> d, ret |-> 0]
    ELSE LET groups == CodeGroups(d[TIPWORD])
             dup == { c \in DOMAIN groups : Len(groups[c]) > 1 }
             merged == [c \in DOMAIN d[TIPWORD] |->
                          IF c \in dup
                          THEN Join(UniqueParts(GroupParts(groups[c]), {}), "/")
                          ELSE d[TIPWORD][c]]
         IN [data |-> DictPut(d, TIPWORD, merged), ret |-> Cardinality(dup)]

----------------------------------------------------------------------------
(* Text round trip: parse_content, then save_data's text, then parse_content *)

MaxLines == 3

\* lines a mark.dat text is made of
LinePool ==
    { <<"[">> \o TIP \o <<"]">>,
      <<"[">> \o MARK \o <<"]">>,
      <<"[", "X", "]">>,
      <<"0", "1", "6", "0", "0", "6", "1", "3", "=", "A">>,
      <<"0", "1", "6", "0", "0", "6", "1", "3", "=", " ">>,
      <<" ", "0", "0", "0", "0", "0", "0", "0", "1", " ", "=", " ", "B", "=", "C", "\r">>,
      <<"6", "0", "0", "6", "1", "3", "=", "A">>,
      <<"U+FF11", "U+FF11", "U+FF11", "U+FF11", "U+FF11", "U+FF11", "U+FF11", "U+FF11", "=", "A">>,
      <<>> }

ContentInputs ==
    UNION { { Join(ls, "\n") : ls \in [1..n -> LinePool] } : n \in 0..MaxLines }

TextIdle ==
    /\ content = <<>>
    /\ parsed = EmptyDict
    /\ written = <<>>
    /\ reparsed = EmptyDict
    /\ tpc = "off"

TextInit ==
    /\ content \in ContentInputs
    /\ parsed = EmptyDict
    /\ written = <<>>
    /\ reparsed = EmptyDict
    /\ tpc = "input"

Parse ==
    /\ tpc = "input"
    /\ parsed' = parse_content(content)
    /\ tpc' = "parsed"
    /\ UNCHANGED <<content, written, reparsed>>

Save ==
    /\ tpc = "parsed"
    /\ written' = save_content(parsed)
    /\ tpc' = "written"
    /\ UNCHANGED <<content, parsed, reparsed>>

Reparse ==
    /\ tpc = "written"
    /\ reparsed' = parse_content(written)
    /\ tpc' = "reparsed"
    /\ UNCHANGED <<content, parsed, written>>

----------------------------------------------------------------------------
(* Code normalisation applied once and again *)

\* the tails of the six-digit inputs
CodeTails ==
    { <<"0", "0", "6", "1", "3">>, <<"0", "0", "0", "0", "1">>,
      <<"3", "0", "0", "4", "7">>, <<"9", "9", "9", "9", "9">> }

SixDigitCodes == { <<d>> \o t : d \in AsciiDigits, t \in CodeTails }

CodeInputs ==
    SixDigitCodes
    \cup { <<"0", "1">> \o <<"6">> \o t : t \in CodeTails }
    \cup { <<"9", "9">> \o <<"6">> \o t : t \in CodeTails }
    \cup { <<>>, <<"6", "0", "0", "6", "1">>, <<"A", "B", "C", "D", "E", "A">>,
           <<" ", "6", "0", "0", "6", "1", "3", " ">>,
           <<"U+FF11", "0", "0", "6", "1", "3">> }

CodeIdle ==
    /\ stock_code = <<>>
    /\ once = Raised
    /\ twice = Raised
    /\ cpc = "off"

CodeInit ==
    /\ stock_code \in CodeInputs
    /\ once = Raised
    /\ twice = Raised
    /\ cpc = "input"

Convert ==
    /\ cpc = "input"
    /\ once' = convert_to_8digit(stock_code)
    /\ cpc' = "once"
    /\ UNCHANGED <<stock_code, twice>>

ConvertAgain ==
    /\ cpc = "once"
    /\ once.ok
    /\ twice' = convert_to_8digit(once.value)
    /\ cpc' = "twice"
    /\ UNCHANGED <<stock_code, once>>

----------------------------------------------------------------------------
(* Operations on one in-memory section map *)

MaxOps == 3

C600613 == <<"6", "0", "0", "6", "1", "3">>
C000001 == <<"0", "0", "0", "0", "0", "1">>
C123456 == <<"1", "2", "3", "4", "5", "6">>
F01600613 == <<"0", "1">> \o C600613
F00000001 == <<"0", "0">> \o C000001

\* the stock codes callers pass
StockCodePool == {C600613, F01600613, C000001, C123456}

\* the full codes of the map
FullCodePool == {F01600613, F00000001}

\* codes for the comparison of the two implementations: short, full,
\* unknown market, padded, fullwidth digit
AgreeCodePool ==
    {C600613, F01600613, C123456, <<" ">> \o C600613, <<"6", "0", "0", "6", "1", "U+FF11">>}

\* number of updates compared in a row
MaxCompared == 2

ValuePool == {<<"A">>, <<"B">>, <<>>}

SectionArgPool == {TIPWORD, <<"t", "i", "p">>, <<"X">>}

DataInputs ==
    { EmptyDict,
      [s \in {TIPWORD} |-> [c \in {F01600613} |-> <<"A", "/", "B", "/", "A">>]],
      [s \in {TIP, TIPWORD} |->
          IF s = TIP THEN [c \in {F01600613} |-> <<"A">>]
          ELSE [c \in FullCodePool |->
                  IF c = F01600613 THEN <<"A">> ELSE <<"B", "/", "B">>]] }

\* an update that stores the value under the code as given, unconverted
UpdateUnconverted(code, section, new_value, d) ==
    IF ~convert_to_8digit(code).ok THEN [data |-> d, ret |-> FALSE]
    ELSE [data |-> SetValue(d, section, code, new_value), ret |-> TRUE]

\* TdxMarkManager._update_section_value: ret is the bool returned
manager_update_section_value(code, section, new_value, d) ==
    LET full == convert_to_8digit(code)
    IN IF ~full.ok THEN [data |-> d, ret |-> FALSE]
       ELSE [data |-> SetValue(d, section, full.value, new_value), ret |-> TRUE]

update_mark(code, new_mark, d) == manager_update_section_value(code, MARK, new_mark, d)

update_tip(code, new_tip, d) == manager_update_section_value(code, TIP, new_tip, d)

update_tipcolor(code, new_tipcolor, d) ==
    manager_update_section_value(code, TIPCOLOR, new_tipcolor, d)

update_time(code, new_time, d) == manager_update_section_value(code, TIME, new_time, d)

\* the manager's method for a section
ManagerUpdate(section, code, value, d) ==
    IF section = MARK THEN update_mark(code, value, d)
    ELSE IF section = TIP THEN update_tip(code, value, d)
    ELSE IF section = TIPWORD THEN update_tipword(code, value, d)
    ELSE IF section = TIPCOLOR THEN update_tipcolor(code, value, d)
    ELSE update_time(code, value, d)

NoOp == [name |-> "none", code |-> <<>>, section |-> <<>>, value |-> <<>>,
         ok |-> FALSE, count |-> 0]

DataIdle ==
    /\ data = EmptyDict
    /\ data_before = EmptyDict
    /\ op = NoOp
    /\ applied = EmptyDict
    /\ nops = 0

DataInit ==
    /\ data \in DataInputs
    /\ data_before = data
    /\ op = NoOp
    /\ applied = [c \in FullCodePool |->
                    [tracked |-> (TIPWORD \notin DOMAIN data
                                  \/ c \notin DOMAIN data[TIPWORD]
                                  \/ data[TIPWORD][c] = <<>>),
                     vals |-> <<>>]]
    /\ nops = 0

\* the history of TIPWORD values applied to a code that had none: extended
\* by an update of that code, dropped when an empty value is applied or
\* another operation rewrites the stored value
AppliedAfterUpdate(target, value) ==
    [c \in FullCodePool |->
        IF c # target THEN applied[c]
        ELSE IF value = <<>> THEN [tracked |-> FALSE, vals |-> <<>>]
        ELSE [applied[c] EXCEPT !.vals = Append(@, value)]]

\* the full code an input names, by the market rules; <<>> when it names none
TargetOf(code) ==
    IF code = C600613 \/ code = F01600613 THEN F01600613
    ELSE IF code = C000001 THEN F00000001
    ELSE <<>>

UpdateTipword(code, value) ==
    /\ nops < MaxOps
    /\ LET r == update_tipword(code, value, data) IN
        /\ data' = r.data
        /\ op' = [name |-> "update_tipword", code |-> code, section |-> TIPWORD,
                  value |-> value, ok |-> r.ret, count |-> 0]
        /\ applied' = IF r.ret THEN AppliedAfterUpdate(TargetOf(code), value)
                      ELSE applied
    /\ data_before' = data
    /\ nops' = nops + 1

UpdateSectionValue(code, section, value) ==
    /\ nops < MaxOps
    /\ LET r == update_section_value(code, section, value, data) IN
        /\ data' = r.data
        /\ op' = [name |-> "update_section_value", code |-> code,
                  section |-> section, value |-> value, ok |-> r.ret, count |-> 0]
        /\ applied' = IF r.ret /\ Upper(Strip(section)) = TIPWORD
                      THEN AppliedAfterUpdate(TargetOf(code), value)
                      ELSE applied
    /\ data_before' = data
    /\ nops' = nops + 1

\* one step of the comparison: the manager's method and the service are
\* given equal maps; the next step goes on from the manager's map
UpdateBothWays(code, section, value) ==
    /\ nops < MaxCompared
    /\ LET m == ManagerUpdate(section, code, value, data)
           s == update_section_value(code, section, value, data)
       IN /\ data' = m.data
          /\ op' = [name |-> "update_both", code |-> code, section |-> section,
                    value |-> value, ok |-> m.ret, count |-> 0,
                    manager |-> m, service |-> s]
    /\ data_before' = data
    /\ applied' = applied
    /\ nops' = nops + 1

MergeDuplicateTipwords ==
    /\ nops < MaxOps
    /\ LET r == merge_duplicate_tipwords(data) IN
        /\ data' = r.data
        /\ op' = [name |-> "merge_duplicate_tipwords", code |-> <<>>,
                  section |-> TIPWORD, value |-> <<>>, ok |-> TRUE, count |-> r.ret]
        /\ applied' = [c \in FullCodePool |->
                         IF GetValue(r.data, TIPWORD, c) # GetValue(data, TIPWORD, c)
                         THEN [tracked |-> FALSE, vals |-> <<>>]
                         ELSE applied[c]]
    /\ data_before' = data
    /\ nops' = nops + 1

----------------------------------------------------------------------------
(* TdxMarkManager.clear_empty_values, on a map passed by the caller *)

\* value == '': the test without strip()
IsEmptyValue(value) == value = <<>>

\* not value.strip()
IsBlankValue(value) == Strip(value) = <<>>

\* [data, ret]: the map after the deletions and the count returned
clear_empty_values(d) ==
    LET empty_keys(section) == { key \in DOMAIN d[section] : IsBlankValue(d[section][key]) }
        count[ss \in SUBSET DOMAIN d] ==
            IF ss = {} THEN 0
            ELSE LET section == CHOOSE x \in ss : TRUE
                 IN Cardinality(empty_keys(section)) + count[ss \ {section}]
    IN [data |-> [section \in DOMAIN d |->
                    [key \in DOMAIN d[section] \ empty_keys(section) |-> d[section][key]]],
        ret |-> count[DOMAIN d]]

ClearValuePool == {<<>>, <<" ">>, <<"A">>, <<" ", "A", " ">>}

\* the records of one section: any of the codes, each with any of the values
ClearSectionPool == UNION { [cs -> ClearValuePool] : cs \in SUBSET FullCodePool }

\* the maps callers pass
ClearInputs == UNION { [ss -> ClearSectionPool] : ss \in SUBSET {TIP, TIPWORD} }

ClearInit ==
    /\ data \in ClearInputs
    /\ data_before = data
    /\ op = NoOp
    /\ applied = EmptyDict
    /\ nops = 0

ClearEmptyValues ==
    /\ nops = 0
    /\ LET r == clear_empty_values(data) IN
        /\ data' = r.data
        /\ op' = [name |-> "clear_empty_values", code |-> <<>>, section |-> <<>>,
                  value |-> <<>>, ok |-> TRUE, count |-> r.ret]
    /\ data_before' = data
    /\ nops' = 1
    /\ UNCHANGED applied

----------------------------------------------------------------------------
(* TdxMarkManager.delete_from_section, on a map passed by the caller *)

\* [data, ret, raised]: the ValueError of an unsupported section and the one
\* of convert_to_8digit are raised inside the try block, whose handler logs
\* and returns False, so no exception leaves the function
delete_from_section(code, section, d) ==
    LET full == convert_to_8digit(code) IN
    IF ~full.ok THEN [data |-> d, ret |-> FALSE, raised |-> FALSE]
    ELSE IF section \notin SectionSet THEN [data |-> d, ret |-> FALSE, raised |-> FALSE]
    ELSE IF section \in DOMAIN d /\ full.value \in DOMAIN d[section]
    THEN [data |-> [d EXCEPT ![section] = DictDel(d[section], full.value)],
          ret |-> TRUE, raised |-> FALSE]
    ELSE [data |-> d, ret |-> FALSE, raised |-> FALSE]

\* the section names callers pass: two supported ones, one in lower case, an
\* unknown one
DeleteSectionPool == {TIP, TIPWORD, <<"t", "i", "p">>, <<"X">>}

DeleteFromSection(code, section) ==
    /\ nops = 0
    /\ LET r == delete_from_section(code, section, data) IN
        /\ data' = r.data
        /\ op' = [name |-> "delete_from_section", code |-> code, section |-> section,
                  value |-> <<>>, ok |-> r.ret, count |-> 0, raised |-> r.raised]
    /\ data_before' = data
    /\ nops' = 1
    /\ UNCHANGED applied

----------------------------------------------------------------------------
(* TdxMarkManager.get_stock_data and get_stocks_by_market, on a map passed *)
(* by the caller                                                           *)

\* extract_stock_code: [ok, value]; ok = FALSE is ValueError
extract_stock_code(full_code) ==
    IF Len(full_code) # 8 THEN Raised ELSE Returned(SubSeq(full_code, 3, 8))

\* get_market_code: [ok, value]; the market names are given in English
get_market_code(full_code) ==
    IF Len(full_code) # 8 \/ ~IsDigit(full_code) THEN Raised
    ELSE LET market_prefix == SubSeq(full_code, 1, 2) IN
         Returned(CASE market_prefix = <<"0", "0">> -> "Shenzhen"
                    [] market_prefix = <<"0", "1">> -> "Shanghai"
                    [] market_prefix = <<"0", "2">> -> "Beijing"
                    [] OTHER -> "unknown")

\* the {} get_stock_data returns from its except branch
NoStockData ==
    [empty |-> TRUE, stock_code |-> <<>>, full_code |-> <<>>, market |-> "",
     values |-> EmptyDict]

\* get_stock_data(stock_code, data); values holds the five section keys
get_stock_data(code, d) ==
    LET full == convert_to_8digit(code) IN
    IF ~full.ok THEN NoStockData
    ELSE [empty |-> FALSE, stock_code |-> code, full_code |-> full.value,
          market |-> get_market_code(full.value).value,
          values |-> [section \in SectionSet |-> GetValue(d, section, full.value)]]

\* str.startswith
StartsWith(s, prefix) == Len(s) >= Len(prefix) /\ SubSeq(s, 1, Len(prefix)) = prefix

\* get_stocks_by_market(market_code, data): the list returned, given as the
\* record appended for each code of all_codes that passes the filter (the
\* order of the list is the iteration order of a set); [] for an invalid
\* market code
get_stocks_by_market(market_code, d) ==
    IF market_code \notin {<<"0", "0">>, <<"0", "1">>, <<"0", "2">>} THEN EmptyDict
    ELSE LET all_codes == UNION { DOMAIN d[section] : section \in DOMAIN d }
             matching == { full_code \in all_codes : StartsWith(full_code, market_code) }
         IN [full_code \in matching |->
                get_stock_data(extract_stock_code(full_code).value, d)]

F01000001 == <<"0", "1">> \o C000001
F01999999 == <<"0", "1", "9", "9", "9", "9", "9", "9">>

\* the full codes stored: a Shanghai and a Shenzhen stock, and the Shanghai
\* indices 000001 and 999999 under the prefix 01
MarketCodePool == {F01600613, F00000001, F01000001, F01999999}

\* the maps queried: any of the codes in TIP with value A, any in TIPWORD
\* with value B
MarketInputs ==
    { [s \in {TIP, TIPWORD} |->
          [c \in (IF s = TIP THEN tips ELSE words) |-> IF s = TIP THEN <<"A">> ELSE <<"B">>]] :
      tips \in SUBSET MarketCodePool, words \in SUBSET MarketCodePool }

MarketInit ==
    /\ data \in MarketInputs
    /\ data_before = data
    /\ op = NoOp
    /\ applied = EmptyDict
    /\ nops = 0

GetStocksByMarket(market_code) ==
    /\ nops = 0
    /\ op' = [name |-> "get_stocks_by_market", code |-> market_code, section |-> <<>>,
              value |-> get_stocks_by_market(market_code, data), ok |-> TRUE, count |-> 0]
    /\ data_before' = data
    /\ nops' = 1
    /\ UNCHANGED <<data, applied>>

----------------------------------------------------------------------------
(* cache.py: LRUCache, one call at a time *)

MaxSize == 2
MaxTime == 1
MaxCalls == 4

KeyPool == {"A", "B", "C"}
\* the (value, ttl) pairs callers put
PutPool == { [value |-> "v1", ttl |-> 0], [value |-> "v2", ttl |-> 1] }

\* list.remove(key): the first occurrence is removed
RECURSIVE RemoveFirst(_, _)
RemoveFirst(order, key) ==
    IF order = <<>> THEN <<>>
    ELSE IF Head(order) = key THEN Tail(order)
    ELSE <<Head(order)>> \o RemoveFirst(Tail(order), key)

InOrder(order, key) == \E i \in 1..Len(order) : order[i] = key

IsExpiredInclusive(entry, t) == (t - entry.timestamp) >= entry.ttl

\* CacheEntry.is_expired at time t
is_expired(entry, t) == (t - entry.timestamp) > entry.ttl

\* LRUCache._remove on the pair st = [cache, order]
Remove(st, key) ==
    [cache |-> IF key \in DOMAIN st.cache THEN DictDel(st.cache, key) ELSE st.cache,
     order |-> IF InOrder(st.order, key) THEN RemoveFirst(st.order, key) ELSE st.order]

UpdateAccessOrderNot(st, key) == st

\* LRUCache._update_access_order
UpdateAccessOrder(st, key) ==
    [st EXCEPT !.order =
        Append(IF InOrder(st.order, key) THEN RemoveFirst(st.order, key) ELSE st.order,
               key)]

\* LRUCache._evict_lru
EvictLru(st) == IF st.order # <<>> THEN Remove(st, st.order[1]) ELSE st

\* CacheEntry.access
Access(st, key) ==
    [st EXCEPT !.cache = [@ EXCEPT ![key].access_count = @ + 1]]

\* LRUCache.get: [cache, order, hit, value]; hit = FALSE is a None result
lru_get(st, key, t) ==
    IF key \notin DOMAIN st.cache
    THEN [cache |-> st.cache, order |-> st.order, hit |-> FALSE, value |-> "None"]
    ELSE IF is_expired(st.cache[key], t)
    THEN LET r == Remove(st, key)
         IN [cache |-> r.cache, order |-> r.order, hit |-> FALSE, value |-> "None"]
    ELSE LET r == Access(UpdateAccessOrder(st, key), key)
         IN [cache |-> r.cache, order |-> r.order, hit |-> TRUE,
             value |-> st.cache[key].data]

\* LRUCache.put
lru_put(st, key, value, ttl, t, size) ==
    LET s1 == IF key \in DOMAIN st.cache THEN Remove(st, key) ELSE st
        s2 == IF Cardinality(DOMAIN s1.cache) >= size THEN EvictLru(s1) ELSE s1
        entry == [data |-> value, timestamp |-> t, ttl |-> ttl, access_count |-> 0]
    IN [cache |-> DictPut(s2.cache, key, entry), order |-> Append(s2.order, key)]

\* LRUCache.invalidate: ret is its boolean result
lru_invalidate(st, key) ==
    IF key \in DOMAIN st.cache
    THEN LET r == Remove(st, key) IN [cache |-> r.cache, order |-> r.order, ret |-> TRUE]
    ELSE [cache |-> st.cache, order |-> st.order, ret |-> FALSE]

\* LRUCache.clear
lru_clear(st) == [cache |-> EmptyDict, order |-> <<>>]

NoCall == [name |-> "none", key |-> "", at |-> 0, hit |-> FALSE, value |-> "None"]

\* the keys of rec still cached in c, in order, then key when it was used
RECURSIVE Kept(_, _)
Kept(rec, c) ==
    IF rec = <<>> THEN <<>>
    ELSE IF Head(rec) \in DOMAIN c THEN <<Head(rec)>> \o Kept(Tail(rec), c)
    ELSE Kept(Tail(rec), c)

Touched(rec, c, key) == Append(Kept(RemoveFirst(rec, key), c), key)

LruState == [cache |-> cache, order |-> access_order]

LruIdle ==
    /\ max_size = 0
    /\ cache = EmptyDict
    /\ access_order = <<>>
    /\ now = 0
    /\ call = NoCall
    /\ before = [cache |-> EmptyDict, recency |-> <<>>]
    /\ recency = <<>>
    /\ ncalls = 0

\* LRUCache.__init__
LruInit ==
    /\ max_size \in 1..MaxSize
    /\ cache = EmptyDict
    /\ access_order = <<>>
    /\ now = 0
    /\ call = NoCall
    /\ before = [cache |-> EmptyDict, recency |-> <<>>]
    /\ recency = <<>>
    /\ ncalls = 0

Snapshot == before' = [cache |-> cache, recency |-> recency]

Get(key) ==
    /\ ncalls < MaxCalls
    /\ LET r == lru_get(LruState, key, now) IN
        /\ cache' = r.cache
        /\ access_order' = r.order
        /\ call' = [name |-> "get", key |-> key, at |-> now, hit |-> r.hit,
                    value |-> r.value]
        /\ recency' = IF r.hit THEN Touched(recency, r.cache, key)
                      ELSE Kept(recency, r.cache)
    /\ Snapshot
    /\ ncalls' = ncalls + 1
    /\ UNCHANGED <<max_size, now>>

Put(key, value, ttl) ==
    /\ ncalls < MaxCalls
    /\ LET r == lru_put(LruState, key, value, ttl, now, max_size) IN
        /\ cache' = r.cache
        /\ access_order' = r.order
        /\ recency' = Touched(recency, r.cache, key)
    /\ call' = [name |-> "put", key |-> key, at |-> now, hit |-> FALSE, value |-> value]
    /\ Snapshot
    /\ ncalls' = ncalls + 1
    /\ UNCHANGED <<max_size, now>>

Invalidate(key) ==
    /\ ncalls < MaxCalls
    /\ LET r == lru_invalidate(LruState, key) IN
        /\ cache' = r.cache
        /\ access_order' = r.order
        /\ call' = [name |-> "invalidate", key |-> key, at |-> now, hit |-> r.ret,
                    value |-> "None"]
        /\ recency' = Kept(recency, r.cache)
    /\ Snapshot
    /\ ncalls' = ncalls + 1
    /\ UNCHANGED <<max_size, now>>

Clear ==
    /\ ncalls < MaxCalls
    /\ LET r == lru_clear(LruState) IN
        /\ cache' = r.cache
        /\ access_order' = r.order
        /\ recency' = Kept(recency, r.cache)
    /\ call' = [name |-> "clear", key |-> "", at |-> now, hit |-> FALSE, value |-> "None"]
    /\ Snapshot
    /\ ncalls' = ncalls + 1
    /\ UNCHANGED <<max_size, now>>

\* a second passes
Tick ==
    /\ now < MaxTime
    /\ now' = now + 1
    /\ UNCHANGED <<max_size, cache, access_order, call, before, recency, ncalls>>

----------------------------------------------------------------------------
(* cache.py: LRUCache called by concurrent threads, statement by statement *)

Threads == {"t1", "t2"}
NoThread == "none"

NoFrame == [name |-> "none", key |-> "", value |-> "None", ttl |-> 0,
            rk |-> "", cont |-> "idle"]

ThrIdle ==
    /\ pc = [t \in Threads |-> "idle"]
    /\ frame = [t \in Threads |-> NoFrame]
    /\ lock_owner = NoThread

LockNotTaken(t) == TRUE

\* with self._lock: an RLock is acquired when free or already held by t
LockAvailable(t) == lock_owner = NoThread \/ lock_owner = t

\* a thread calls get, put, invalidate or clear and enters the with block
Enter(t, name, key, p, first) ==
    /\ pc[t] = "idle"
    /\ ncalls < MaxCalls
    /\ LockAvailable(t)
    /\ lock_owner' = t
    /\ pc' = [pc EXCEPT ![t] = first]
    /\ frame' = [frame EXCEPT ![t] = [name |-> name, key |-> key, value |-> p.value,
                                      ttl |-> p.ttl, rk |-> "", cont |-> "idle"]]
    /\ ncalls' = ncalls + 1
    /\ UNCHANGED <<max_size, cache, access_order, now, call, before, recency>>

CallGet(t, key) == Enter(t, "get", key, [value |-> "None", ttl |-> 0], "get_check")
CallPut(t, key, p) == Enter(t, "put", key, p, "put_check")
CallInvalidate(t, key) ==
    Enter(t, "invalidate", key, [value |-> "None", ttl |-> 0], "inv_check")
CallClear(t) == Enter(t, "clear", "", [value |-> "None", ttl |-> 0], "clr_cache")

\* one statement of thread t: the shared state and t's position change
Step(t, from, to, c, o, f) ==
    /\ pc[t] = from
    /\ pc' = [pc EXCEPT ![t] = to]
    /\ cache' = c
    /\ access_order' = o
    /\ frame' = [frame EXCEPT ![t] = f]
    /\ UNCHANGED <<max_size, now, call, before, recency, ncalls, lock_owner>>

\* get: if key not in self._cache / if entry.is_expired (lines 51-59)
GetCheck(t) ==
    LET key == frame[t].key IN
    IF key \notin DOMAIN cache
    THEN Step(t, "get_check", "release", cache, access_order, frame[t])
    ELSE IF is_expired(cache[key], now)
    THEN Step(t, "get_check", "rm_cache", cache, access_order,
              [frame[t] EXCEPT !.rk = key, !.cont = "release"])
    ELSE Step(t, "get_check", "upd_rm", cache, access_order, frame[t])

\* _update_access_order: if key in order: order.remove(key) (lines 143-144)
UpdRemove(t) ==
    LET key == frame[t].key IN
    Step(t, "upd_rm", "upd_append", cache,
         IF InOrder(access_order, key) THEN RemoveFirst(access_order, key)
         ELSE access_order,
         frame[t])

\* _update_access_order: order.append(key) (line 145)
UpdAppend(t) ==
    Step(t, "upd_append", "access", cache, Append(access_order, frame[t].key), frame[t])

\* return entry.access() (line 64)
EntryAccess(t) ==
    LET key == frame[t].key IN
    Step(t, "access", "release",
         IF key \in DOMAIN cache
         THEN [cache EXCEPT ![key].access_count = @ + 1] ELSE cache,
         access_order, frame[t])

\* _remove: if key in cache: del cache[key] (lines 136-137)
RemoveCache(t) ==
    LET rk == frame[t].rk IN
    Step(t, "rm_cache", "rm_order",
         IF rk \in DOMAIN cache THEN DictDel(cache, rk) ELSE cache,
         access_order, frame[t])

\* _remove: if key in order: order.remove(key) (lines 138-139)
RemoveOrder(t) ==
    LET rk == frame[t].rk IN
    Step(t, "rm_order", frame[t].cont, cache,
         IF InOrder(access_order, rk) THEN RemoveFirst(access_order, rk)
         ELSE access_order,
         frame[t])

\* put: if key in self._cache: self._remove(key) (lines 77-78)
PutCheck(t) ==
    LET key == frame[t].key IN
    IF key \in DOMAIN cache
    THEN Step(t, "put_check", "rm_cache", cache, access_order,
              [frame[t] EXCEPT !.rk = key, !.cont = "put_full"])
    ELSE Step(t, "put_check", "put_full", cache, access_order, frame[t])

\* put: if len(self._cache) >= self.max_size (line 81)
PutFull(t) ==
    IF Cardinality(DOMAIN cache) >= max_size
    THEN Step(t, "put_full", "evict", cache, access_order, frame[t])
    ELSE Step(t, "put_full", "put_set", cache, access_order, frame[t])

\* _evict_lru: if order: lru_key = order[0]; self._remove(lru_key) (lines 149-151)
Evict(t) ==
    IF access_order # <<>>
    THEN Step(t, "evict", "rm_cache", cache, access_order,
              [frame[t] EXCEPT !.rk = access_order[1], !.cont = "put_set"])
    ELSE Step(t, "evict", "put_set", cache, access_order, frame[t])

\* put: self._cache[key] = entry (lines 85-90)
PutSet(t) ==
    Step(t, "put_set", "put_append",
         DictPut(cache, frame[t].key,
                 [data |-> frame[t].value, timestamp |-> now, ttl |-> frame[t].ttl,
                  access_count |-> 0]),
         access_order, frame[t])

\* put: self._access_order.append(key) (line 91)
PutAppend(t) ==
    Step(t, "put_append", "release", cache, Append(access_order, frame[t].key), frame[t])

\* invalidate: if key in self._cache: self._remove(key) (lines 104-107)
InvCheck(t) ==
    LET key == frame[t].key IN
    IF key \in DOMAIN cache
    THEN Step(t, "inv_check", "rm_cache", cache, access_order,
              [frame[t] EXCEPT !.rk = key, !.cont = "release"])
    ELSE Step(t, "inv_check", "release", cache, access_order, frame[t])

\* clear: self._cache.clear() (line 112)
ClearCache(t) == Step(t, "clr_cache", "clr_order", EmptyDict, access_order, frame[t])

\* clear: self._access_order.clear() (line 113)
ClearOrder(t) == Step(t, "clr_order", "release", cache, <<>>, frame[t])

\* the with block is left: the lock is released
Release(t) ==
    /\ pc[t] = "release"
    /\ pc' = [pc EXCEPT ![t] = "idle"]
    /\ lock_owner' = IF lock_owner = t THEN NoThread ELSE lock_owner
    /\ frame' = [frame EXCEPT ![t] = NoFrame]
    /\ UNCHANGED <<max_size, cache, access_order, now, call, before, recency,
                   ncalls>>

TickThreads == Tick /\ UNCHANGED thrVars

----------------------------------------------------------------------------
(* tdx_mark_manager.py: process_file and safe_update called by concurrent threads *)

MgrThreads == {"t1", "t2", "t3"}

\* the statements of process_file inside "with self._lock", in order
ProcessFileBody ==
    <<"pf_load", "pf_clean", "pf_merge", "pf_normalize", "pf_validate", "pf_save",
      "pf_history", "pf_exit">>

\* the statements of safe_update inside "with self._lock", in order
SafeUpdateBody ==
    <<"su_backup", "su_load", "su_update_func", "su_verify", "su_exit">>

UpdateFuncs == {"plain", "calls_process_file", "calls_safe_update"}

PositionsOf(body) == { body[i] : i \in 1..Len(body) }

After(body, pos) == body[IndexOf(body, pos) + 1]

Top(t) == stack[t][Len(stack[t])]

SetTop(t, pos) == [stack EXCEPT ![t] = [@ EXCEPT ![Len(@)] = pos]]

MgrIdle ==
    /\ stack = [t \in MgrThreads |-> <<>>]
    /\ update_func = [t \in MgrThreads |-> "plain"]
    /\ mgr_lock = NoThread

MgrInit == MgrIdle

MgrLockIgnored == TRUE

\* self._lock = threading.Lock(): acquired only when no thread holds it
MgrLockFree == mgr_lock = NoThread

\* a thread calls process_file and arrives at "with self._lock"
CallProcessFile(t) ==
    /\ stack[t] = <<>>
    /\ stack' = [stack EXCEPT ![t] = <<"pf_with">>]
    /\ UNCHANGED <<update_func, mgr_lock>>

\* a thread calls safe_update(update_func) and arrives at "with self._lock"
CallSafeUpdate(t, f) ==
    /\ stack[t] = <<>>
    /\ stack' = [stack EXCEPT ![t] = <<"su_with">>]
    /\ update_func' = [update_func EXCEPT ![t] = f]
    /\ UNCHANGED mgr_lock

\* with self._lock: the thread gets the lock and enters the body
Acquire(t) ==
    /\ stack[t] # <<>>
    /\ Top(t) \in {"pf_with", "su_with"}
    /\ MgrLockFree
    /\ mgr_lock' = t
    /\ stack' = SetTop(t, IF Top(t) = "pf_with" THEN ProcessFileBody[1]
                          ELSE SafeUpdateBody[1])
    /\ UNCHANGED update_func

\* one statement of the body of process_file
ProcessFileStep(t) ==
    /\ stack[t] # <<>>
    /\ Top(t) \in PositionsOf(ProcessFileBody) \ {"pf_exit"}
    /\ stack' = SetTop(t, After(ProcessFileBody, Top(t)))
    /\ UNCHANGED <<update_func, mgr_lock>>

\* one statement of the body of safe_update other than the call of update_func
SafeUpdateStep(t) ==
    /\ stack[t] # <<>>
    /\ Top(t) \in PositionsOf(SafeUpdateBody) \ {"su_update_func", "su_exit"}
    /\ stack' = SetTop(t, After(SafeUpdateBody, Top(t)))
    /\ UNCHANGED <<update_func, mgr_lock>>

\* result = update_func(*args, **kwargs): a plain update, or a function that
\* itself calls process_file or safe_update (with a plain update) of the same
\* manager
UpdateFunc(t) ==
    /\ stack[t] # <<>>
    /\ Top(t) = "su_update_func"
    /\ stack' = IF update_func[t] = "plain" \/ Len(stack[t]) > 1
                THEN SetTop(t, "su_verify")
                ELSE [stack EXCEPT ![t] =
                         Append(SetTop(t, "su_verify")[t],
                                IF update_func[t] = "calls_process_file"
                                THEN "pf_with" ELSE "su_with")]
    /\ UNCHANGED <<update_func, mgr_lock>>

\* except Exception: a statement of either body raises, the handler returns
BodyRaises(t) ==
    /\ stack[t] # <<>>
    /\ \/ /\ Top(t) \in PositionsOf(ProcessFileBody) \ {"pf_exit"}
          /\ stack' = SetTop(t, "pf_exit")
       \/ /\ Top(t) \in PositionsOf(SafeUpdateBody) \ {"su_exit"}
          /\ stack' = SetTop(t, "su_exit")
    /\ UNCHANGED <<update_func, mgr_lock>>

\* the with block is left: the lock is released and the call returns
MgrRelease(t) ==
    /\ stack[t] # <<>>
    /\ Top(t) \in {"pf_exit", "su_exit"}
    /\ mgr_lock' = NoThread
    /\ stack' = [stack EXCEPT ![t] = SubSeq(@, 1, Len(@) - 1)]
    /\ UNCHANGED update_func

----------------------------------------------------------------------------
(* validators.validate_stock_code: [ok, value]; ok = FALSE is StockCodeError *)

MarketCodes == {<<"0", "0">>, <<"0", "1">>, <<"0", "2">>}

validate_stock_code(code, allow_short) ==
    IF code = <<>> THEN Raised
    ELSE LET c == Strip(code) IN
         IF ~IsDigit(c) THEN Raised
         ELSE IF Len(c) = STOCK_CODE_LENGTH
         THEN IF SubSeq(c, 1, MARKET_CODE_LENGTH) \in MarketCodes
              THEN Returned(c) ELSE Raised
         ELSE IF Len(c) = STOCK_CODE_SHORT_LENGTH /\ allow_short THEN Returned(c)
         ELSE Raised

----------------------------------------------------------------------------
(* tdx_mark_manager.py: the live file, the backup directory, load and save *)

\* _cleanup_old_backups(self, max_backups: int = 30)
max_backups == 30

NoFile == [exists |-> FALSE, content |-> <<>>, mtime |-> 0]

File(text, mtime) == [exists |-> TRUE, content |-> text, mtime |-> mtime]

\* the file system the manager works on
Fs(l, b) == [live |-> l, backups |-> b]

\* str.encode('gbk') succeeds
GbkEncodable(text) == \A i \in 1..Len(text) : text[i] # "U+1F600"

\* the sort without reverse=True: the newest backups go first in the tail
Newest(b) == { n \in DOMAIN b : \A m \in DOMAIN b : b[n].mtime >= b[m].mtime }

\* the backups with the oldest modification time: with reverse=True and a
\* stable sort, files of equal mtime stay in the order glob listed them,
\* which the file system decides
Oldest(b) == { n \in DOMAIN b : \A m \in DOMAIN b : b[n].mtime <= b[m].mtime }

\* _cleanup_old_backups: every directory the pruning can leave
RECURSIVE cleanup_old_backups(_)
cleanup_old_backups(b) ==
    IF Cardinality(DOMAIN b) <= max_backups THEN {b}
    ELSE UNION { cleanup_old_backups(DictDel(b, n)) : n \in Oldest(b) }

\* create_backup at second t: [ok, path, fs] for every outcome; ok = FALSE is
\* FileNotFoundError; shutil.copy2 keeps the modification time of the source
create_backup(fs, t) ==
    IF ~fs.live.exists THEN { [ok |-> FALSE, path |-> <<>>, fs |-> fs] }
    ELSE LET copied == DictPut(fs.backups, t,
                               [content |-> fs.live.content, mtime |-> fs.live.mtime])
         IN { [ok |-> TRUE, path |-> <<t>>, fs |-> Fs(fs.live, b)] :
              b \in cleanup_old_backups(copied) }

\* load_data(create_backup=False): [ok, value]; ok = FALSE is FileNotFoundError
load_data(fs) ==
    IF ~fs.live.exists THEN Raised ELSE Returned(parse_content(fs.live.content))

\* validate_data_integrity(data)['invalid_codes']
invalid_codes(d) ==
    { code \in UNION { DOMAIN d[section] : section \in DOMAIN d \cap SectionSet } :
        Len(code) # 8 \/ ~IsDigit(code) }

\* with open(target_path, 'w', encoding='gbk') as f: f.write(content):
\* open truncates the file, then write raises if the text cannot be encoded
Write(fs, text, t) ==
    IF GbkEncodable(text)
    THEN [ok |-> TRUE, fs |-> Fs(File(text, t), fs.backups)]
    ELSE [ok |-> FALSE, fs |-> Fs(File(<<>>, t), fs.backups)]

\* save_data(data) to the live file at second t: [ok, fs] for every outcome;
\* a failed backup is logged and the save goes on
save_data(fs, d, t) ==
    { Write(b.fs, save_content(d), t) : b \in create_backup(fs, t) }

\* shutil.copy2(backup_path, mark_dat_path): [ok, fs]; ok = FALSE is
\* FileNotFoundError
copy_back(fs, path) ==
    IF path # <<>> /\ path[1] \in DOMAIN fs.backups
    THEN [ok |-> TRUE,
          fs |-> Fs(File(fs.backups[path[1]].content, fs.backups[path[1]].mtime),
                    fs.backups)]
    ELSE [ok |-> FALSE, fs |-> fs]

----------------------------------------------------------------------------
(* safe_batch_service.py: SafeBatchService.safe_batch_update *)

MaxUpdates == 2

ValidateInputsKeysOnly(updates, section) ==
    /\ updates # <<>>
    /\ \A i \in 1..Len(updates) : validate_stock_code(updates[i].code, TRUE).ok

\* _validate_inputs: TRUE iff it raises no ValidationError
validate_inputs(updates, section) ==
    /\ updates # <<>>
    /\ validate_section(section).ok
    /\ \A i \in 1..Len(updates) : validate_stock_code(updates[i].code, TRUE).ok

\* a split that keeps only the slices of exactly chunk_size items
SplitIntoFullChunks(updates, chunk_size) ==
    [i \in 1..(Len(updates) \div chunk_size) |->
        SubSeq(updates, (i - 1) * chunk_size + 1, i * chunk_size)]

\* _split_into_chunks, chunk_size >= 1
RECURSIVE split_into_chunks(_, _)
split_into_chunks(updates, chunk_size) ==
    IF updates = <<>> THEN <<>>
    ELSE IF Len(updates) <= chunk_size THEN <<updates>>
    ELSE <<SubSeq(updates, 1, chunk_size)>>
         \o split_into_chunks(SubSeq(updates, chunk_size + 1, Len(updates)), chunk_size)

\* DataOperationService.batch_update: the updated data and, per item in
\* order, whether update_section_value succeeded
RECURSIVE batch_update(_, _, _)
batch_update(updates, section, d) ==
    IF updates = <<>> THEN [data |-> d, individual_results |-> <<>>]
    ELSE LET r == update_section_value(Head(updates).code, section, Head(updates).value, d)
             rest == batch_update(Tail(updates), section, r.data)
         IN [data |-> rest.data,
             individual_results |->
                 <<[code |-> Head(updates).code, success |-> r.ret]>>
                 \o rest.individual_results]

RECURSIVE ItemsWith(_, _)
ItemsWith(individual_results, success) ==
    IF individual_results = <<>> THEN <<>>
    ELSE (IF Head(individual_results).success = success
          THEN <<Head(individual_results).code>> ELSE <<>>)
         \o ItemsWith(Tail(individual_results), success)

\* chunk_result.success_rate >= config.success_threshold, the rate being
\* successful_items / total_items * 100
RateReaches(successful, total, threshold) ==
    total > 0 /\ successful * 100 >= threshold * total

\* chunk_result.errors.extend(batch_result.errors): one message per failed item
ItemErrors(failed_items) == [i \in 1..Len(failed_items) |-> "item"]

ChunkResult(success, successful_items, failed_items, errors, backup_path, rolled_back) ==
    [success |-> success, successful_items |-> successful_items,
     failed_items |-> failed_items, errors |-> errors, backup_path |-> backup_path,
     rolled_back |-> rolled_back]

\* what one chunk did: the file system after it, the ChunkResult, the file
\* operations, and a record of the file before, the data it had to save and
\* the file after
Outcome(fs0, fs1, res, ops, to_save) ==
    [fs |-> fs1, res |-> res, ops |-> ops,
     log |-> [before |-> fs0.live, to_save |-> to_save, after |-> fs1.live]]

\* the except branch of _process_chunk (lines 309-323)
OnException(fs0, fs1, b, items, ops, config) ==
    LET ok == ItemsWith(items, TRUE)
        bad == ItemsWith(items, FALSE)
        c == copy_back(fs1, b.path)
    IN IF config.auto_rollback /\ b.path # <<>>
       THEN IF c.ok
            THEN Outcome(fs0, c.fs,
                         ChunkResult(FALSE, ok, bad, ItemErrors(bad) \o <<"exception">>,
                                     b.path, TRUE),
                         ops \o <<"restore">>, <<>>)
            ELSE Outcome(fs0, fs1,
                         ChunkResult(FALSE, ok, bad,
                                     ItemErrors(bad) \o <<"exception", "rollback">>,
                                     b.path, FALSE),
                         ops, <<>>)
       ELSE Outcome(fs0, fs1,
                    ChunkResult(FALSE, ok, bad, ItemErrors(bad) \o <<"exception">>,
                                b.path, FALSE),
                    ops, <<>>)

\* _process_chunk after a successful create_backup (lines 268-307)
AfterBackup(fs0, b, chunk_data, section, config, t) ==
    LET loaded == load_data(b.fs)
        batch == batch_update(chunk_data, section, loaded.value)
        items == batch.individual_results
        ok == ItemsWith(items, TRUE)
        bad == ItemsWith(items, FALSE)
        c == copy_back(b.fs, b.path)
    IN IF ~loaded.ok
       THEN { OnException(fs0, b.fs, b, <<>>, <<"backup">>, config) }
       ELSE IF RateReaches(Len(ok), Len(items), config.success_threshold)
       THEN IF config.validate_before_save /\ invalid_codes(batch.data) # {}
            THEN { OnException(fs0, b.fs, b, items, <<"backup", "read">>, config) }
            ELSE { Outcome(fs0, w.fs, ChunkResult(TRUE, ok, bad, ItemErrors(bad), b.path, FALSE),
                           <<"backup", "read", "backup", "write">>,
                           save_content(batch.data)) :
                   w \in save_data(b.fs, batch.data, t) }
       ELSE IF config.auto_rollback
       THEN IF c.ok
            THEN { Outcome(fs0, c.fs, ChunkResult(FALSE, ok, bad, ItemErrors(bad), b.path, TRUE),
                           <<"backup", "read", "restore">>, <<>>) }
            ELSE { OnException(fs0, b.fs, b, items, <<"backup", "read">>, config) }
       ELSE { Outcome(fs0, b.fs, ChunkResult(FALSE, ok, bad, ItemErrors(bad), b.path, FALSE),
                      <<"backup", "read">>, <<>>) }

\* _process_chunk going on to load and update after a failed create_backup
ProcessChunkDespiteBackup(fs, chunk_data, section, config, t) ==
    UNION { AfterBackup(fs, b, chunk_data, section, config, t) :
            b \in create_backup(fs, t) }

\* _process_chunk at second t: every outcome
process_chunk(fs, chunk_data, section, config, t) ==
    UNION { IF ~b.ok
            THEN { Outcome(fs, fs, ChunkResult(FALSE, <<>>, <<>>, <<"backup">>, <<>>, FALSE),
                           <<>>, <<>>) }
            ELSE AfterBackup(fs, b, chunk_data, section, config, t) :
            b \in create_backup(fs, t) }

\* the codes, values and sections a call is made with: a Shanghai code, a
\* 6-digit code of no known market, a 5-digit code; a plain value and one
\* that GBK cannot encode
BatchCodePool == {C600613, C123456, <<"6", "0", "0", "6", "1">>}

BatchValuePool == {<<"A">>, <<"U+1F600">>}

BatchSectionPool == {TIP, <<"t", "i", "p", "w", "o", "r", "d">>, <<"X">>}

Items == [code : BatchCodePool, value : BatchValuePool]

\* the update maps: up to MaxUpdates items in insertion order, keys distinct
RECURSIVE UpdateMaps(_)
UpdateMaps(n) ==
    IF n = 0 THEN {<<>>}
    ELSE LET shorter == UpdateMaps(n - 1)
         IN shorter \cup
            { Append(u, item) : u \in { x \in shorter : Len(x) = n - 1 },
                                item \in Items }

DistinctKeys(u) == \A i, j \in 1..Len(u) : i # j => u[i].code # u[j].code

BatchUpdatePool == { u \in UpdateMaps(MaxUpdates) : DistinctKeys(u) }

\* SafeBatchConfig
BatchConfigPool ==
    [chunk_size : {1, 2}, success_threshold : {50, 100}, auto_rollback : BOOLEAN,
     continue_on_chunk_failure : BOOLEAN, validate_before_save : {TRUE}]

TipRecord == <<SaveHeader(TIP), F01600613 \o <<"=", "B">>, <<>>>>

\* mark.dat when the call is made: missing, empty, or holding one TIP record
LiveInputs == {NoFile, File(<<>>, 1), File(Join(TipRecord, "\n"), 1)}

\* max_backups earlier backups named by the seconds before the call; all but
\* the first were copied from a file modified later than mark.dat is now
\* (mark.dat has since been restored from an older copy), the first has the
\* modification time first_mtime
EarlierBackups(first_mtime) ==
    [n \in (1 - max_backups)..0 |->
        [content |-> <<"o", "l", "d">>,
         mtime |-> IF n = 1 - max_backups THEN first_mtime ELSE 2]]

\* the backup directory when the call is made: empty, full of newer backups,
\* or full with one backup as old as mark.dat
BackupInputs == {EmptyDict, EarlierBackups(2), EarlierBackups(1)}

NoArgs == [updates |-> <<>>, section |-> <<>>,
           config |-> [chunk_size |-> 1, success_threshold |-> 100,
                       auto_rollback |-> TRUE, continue_on_chunk_failure |-> TRUE,
                       validate_before_save |-> TRUE]]

\* SafeBatchResult(total_items=len(updates), ...)
NewResult(total_items, total_chunks) ==
    [total_items |-> total_items, total_chunks |-> total_chunks,
     successful_chunks |-> 0, failed_chunks |-> 0, rolled_back_chunks |-> 0,
     overall_success_rate |-> [num |-> 0, den |-> 1],
     successful_items |-> <<>>, failed_items |-> <<>>, chunk_results |-> <<>>,
     errors |-> <<>>]

\* mark.dat with a MARK section holding an empty value and a value, and a TIP
\* record
MarkAndTipRecords ==
    <<SaveHeader(MARK), F00000001 \o <<"=">>, F01600613 \o <<"=", "1">>, <<>>,
      SaveHeader(TIP), F01600613 \o <<"=", "B">>, <<>>>>

\* a call on that file, the backup directory empty
FrameInit ==
    /\ live = File(Join(MarkAndTipRecords, "\n"), 1)
    /\ backups = EmptyDict
    /\ clock = 3
    /\ phase = "idle"
    /\ args = NoArgs
    /\ chunks = <<>>
    /\ result = NewResult(0, 0)
    /\ chunk_log = <<>>
    /\ at_call = Fs(live, backups)
    /\ io = <<>>

BatchIdle ==
    /\ live = NoFile
    /\ backups = EmptyDict
    /\ clock = 0
    /\ phase = "idle"
    /\ args = NoArgs
    /\ chunks = <<>>
    /\ result = NewResult(0, 0)
    /\ chunk_log = <<>>
    /\ at_call = Fs(NoFile, EmptyDict)
    /\ io = <<>>

BatchInit ==
    /\ live \in LiveInputs
    /\ backups \in BackupInputs
    /\ clock = 3
    /\ phase = "idle"
    /\ args = NoArgs
    /\ chunks = <<>>
    /\ result = NewResult(0, 0)
    /\ chunk_log = <<>>
    /\ at_call = Fs(live, backups)
    /\ io = <<>>

\* safe_batch_update up to the loop: _validate_inputs raises, or the result
\* object is set up and the updates are split (lines 153-171)
SafeBatchUpdate(updates, section, config) ==
    /\ phase = "idle"
    /\ args' = [updates |-> updates, section |-> section, config |-> config]
    /\ at_call' = Fs(live, backups)
    /\ io' = <<>>
    /\ IF validate_inputs(updates, section)
       THEN /\ phase' = "running"
            /\ chunks' = split_into_chunks(updates, config.chunk_size)
            /\ result' = NewResult(Len(updates),
                                   Len(split_into_chunks(updates, config.chunk_size)))
       ELSE /\ phase' = "raised"
            /\ UNCHANGED <<chunks, result>>
    /\ UNCHANGED <<live, backups, clock, chunk_log>>

NeverStops(res, config) == FALSE

\* if not config.continue_on_chunk_failure: break, in the branch of a failed
\* chunk (lines 193-195)
StopsAfter(res, config) == ~res.success /\ ~config.continue_on_chunk_failure

\* one turn of the loop: _process_chunk and the bookkeeping of lines 178-195
ProcessChunk ==
    /\ phase = "running"
    /\ chunks # <<>>
    /\ \E o \in process_chunk(Fs(live, backups), Head(chunks), args.section,
                              args.config, clock) :
        /\ live' = o.fs.live
        /\ backups' = o.fs.backups
        /\ io' = io \o o.ops
        /\ chunk_log' = Append(chunk_log,
                               [before |-> o.log.before, to_save |-> o.log.to_save,
                                after |-> o.log.after, chunk_data |-> Head(chunks),
                                ops |-> o.ops])
        /\ result' =
             IF o.res.success
             THEN [result EXCEPT
                     !.chunk_results = Append(@, o.res),
                     !.successful_chunks = @ + 1,
                     !.successful_items = @ \o o.res.successful_items]
             ELSE [result EXCEPT
                     !.chunk_results = Append(@, o.res),
                     !.failed_chunks = @ + 1,
                     !.failed_items = @ \o o.res.failed_items,
                     !.errors = @ \o o.res.errors,
                     !.rolled_back_chunks = IF o.res.rolled_back THEN @ + 1 ELSE @]
        /\ chunks' = IF StopsAfter(o.res, args.config) THEN <<>> ELSE Tail(chunks)
    /\ UNCHANGED <<clock, phase, args, at_call>>

\* after the loop: overall_success_rate is computed and the result returned
Return ==
    /\ phase = "running"
    /\ chunks = <<>>
    /\ phase' = "returned"
    /\ result' = [result EXCEPT !.overall_success_rate =
                     IF result.total_items > 0
                     THEN [num |-> Len(result.successful_items) * 100,
                           den |-> result.total_items]
                     ELSE [num |-> 0, den |-> 1]]
    /\ UNCHANGED <<live, backups, clock, args, chunks, chunk_log, at_call, io>>

\* a second passes between two chunks
BatchTick ==
    /\ phase = "running"
    /\ chunks # <<>>
    /\ clock < 3 + MaxTime
    /\ clock' = clock + 1
    /\ UNCHANGED <<live, backups, phase, args, chunks, result, chunk_log, at_call, io>>

----------------------------------------------------------------------------
(* safe_batch_service.py: SafeBatchService._batch_delete_sections *)

\* _validate_delete_inputs for a list of codes: TRUE iff it raises no
\* ValidationError
validate_delete_inputs(targets, config) ==
    /\ targets # <<>>
    /\ \A i \in 1..Len(targets) : validate_stock_code(targets[i], TRUE).ok
    /\ \A i \in 1..Len(config.target_sections) :
          validate_section(config.target_sections[i]).ok

\* delete_map[code] = config.target_sections for code in stock_codes: the keys
\* of the dict in insertion order, a repeated code keeping its first place
RECURSIVE DeleteMapKeys(_)
DeleteMapKeys(stock_codes) ==
    IF stock_codes = <<>> THEN <<>>
    ELSE LET keys == DeleteMapKeys(SubSeq(stock_codes, 1, Len(stock_codes) - 1))
             code == stock_codes[Len(stock_codes)]
         IN IF \E i \in 1..Len(keys) : keys[i] = code
            THEN keys ELSE Append(keys, code)

\* a split that puts every key into a chunk of its own
SplitIntoSingles(delete_map, chunk_size) ==
    [i \in 1..Len(delete_map) |-> <<delete_map[i]>>]

\* _split_delete_map_into_chunks, chunk_size >= 1: the same slicing as
\* _split_into_chunks, on the keys of the delete map
split_delete_map_into_chunks(delete_map, chunk_size) ==
    split_into_chunks(delete_map, chunk_size)

\* for section in sections: if not delete_from_section(...): all_success = False
RECURSIVE DeleteFromSections(_, _, _)
DeleteFromSections(code, sections, d) ==
    IF sections = <<>> THEN [data |-> d, all_success |-> TRUE]
    ELSE LET r == delete_from_section(code, Head(sections), d)
             rest == DeleteFromSections(code, Tail(sections), r.data)
         IN [data |-> rest.data, all_success |-> r.ret /\ rest.all_success]

\* the loop over the codes of a chunk (lines 850-871), delete_type "section":
\* the data after it and, per code in order, whether all deletions succeeded
RECURSIVE DeleteLoop(_, _, _)
DeleteLoop(codes, sections, d) ==
    IF codes = <<>> THEN [data |-> d, individual_results |-> <<>>]
    ELSE LET r == DeleteFromSections(Head(codes), sections, d)
             rest == DeleteLoop(Tail(codes), sections, r.data)
         IN [data |-> rest.data,
             individual_results |->
                 <<[code |-> Head(codes), success |-> r.all_success]>>
                 \o rest.individual_results]

\* the except branch of _process_delete_chunk (lines 888-901)
OnDeleteException(fs0, fs1, b, items, ops, config) ==
    LET ok == ItemsWith(items, TRUE)
        bad == ItemsWith(items, FALSE)
        c == copy_back(fs1, b.path)
    IN IF config.auto_rollback /\ b.path # <<>>
       THEN IF c.ok
            THEN Outcome(fs0, c.fs,
                         ChunkResult(FALSE, ok, bad, <<"exception">>, b.path, TRUE),
                         ops \o <<"restore">>, <<>>)
            ELSE Outcome(fs0, fs1,
                         ChunkResult(FALSE, ok, bad, <<"exception", "rollback">>,
                                     b.path, FALSE),
                         ops, <<>>)
       ELSE Outcome(fs0, fs1,
                    ChunkResult(FALSE, ok, bad, <<"exception">>, b.path, FALSE),
                    ops, <<>>)

\* _process_delete_chunk after a successful create_backup (lines 848-886)
AfterDeleteBackup(fs0, b, chunk_data, sections, config, t) ==
    LET loaded == load_data(b.fs)
        deleted == DeleteLoop(chunk_data, sections, loaded.value)
        items == deleted.individual_results
        ok == ItemsWith(items, TRUE)
        bad == ItemsWith(items, FALSE)
        c == copy_back(b.fs, b.path)
    IN IF ~loaded.ok
       THEN { OnDeleteException(fs0, b.fs, b, <<>>, <<"backup">>, config) }
       ELSE IF RateReaches(Len(ok), Len(chunk_data), config.success_threshold)
       THEN IF config.verify_after_delete /\ invalid_codes(deleted.data) # {}
            THEN { OnDeleteException(fs0, b.fs, b, items, <<"backup", "read">>, config) }
            ELSE { Outcome(fs0, w.fs, ChunkResult(TRUE, ok, bad, <<>>, b.path, FALSE),
                           <<"backup", "read", "backup", "write">>,
                           save_content(deleted.data)) :
                   w \in save_data(b.fs, deleted.data, t) }
       ELSE IF config.auto_rollback
       THEN IF c.ok
            THEN { Outcome(fs0, c.fs, ChunkResult(FALSE, ok, bad, <<>>, b.path, TRUE),
                           <<"backup", "read", "restore">>, <<>>) }
            ELSE { OnDeleteException(fs0, b.fs, b, items, <<"backup", "read">>, config) }
       ELSE { Outcome(fs0, b.fs, ChunkResult(FALSE, ok, bad, <<>>, b.path, FALSE),
                      <<"backup", "read">>, <<>>) }

\* _process_delete_chunk(chunk_data, "section", ...) at second t: every outcome
process_delete_chunk(fs, chunk_data, sections, config, t) ==
    UNION { IF ~b.ok
            THEN { Outcome(fs, fs, ChunkResult(FALSE, <<>>, <<>>, <<"backup">>, <<>>, FALSE),
                           <<>>, <<>>) }
            ELSE AfterDeleteBackup(fs, b, chunk_data, sections, config, t) :
            b \in create_backup(fs, t) }

\* the codes a call is made with: two 6-digit codes, the 8-digit form of the
\* first, a 5-digit code
DeleteCodePool == {C600613, C000001, F01600613, <<"6", "0", "0", "6", "1">>}

\* the lists of at most MaxUpdates codes, repetitions included
DeleteCodeLists ==
    UNION { [1..n -> DeleteCodePool] : n \in 0..MaxUpdates }

\* config.target_sections: none, one section, two sections, a lower-case name
TargetSectionPool == {<<>>, <<TIP>>, <<TIP, TIPWORD>>, <<<<"t", "i", "p">>>>}

\* SafeDeleteConfig
DeleteConfigPool ==
    [chunk_size : {1, 2}, success_threshold : {50, 100}, auto_rollback : BOOLEAN,
     continue_on_chunk_failure : BOOLEAN, verify_after_delete : {TRUE},
     target_sections : TargetSectionPool]

\* mark.dat with 01600613 in TIP and TIPWORD and 00000001 in TIP only
TwoSectionRecords ==
    <<SaveHeader(TIP), F00000001 \o <<"=", "B">>, F01600613 \o <<"=", "A">>, <<>>,
      SaveHeader(TIPWORD), F01600613 \o <<"=", "x", "/", "y">>, <<>>>>

\* mark.dat when the call is made: missing or holding these records
DeleteLiveInputs == {NoFile, File(Join(TwoSectionRecords, "\n"), 1)}

NoDeleteArgs ==
    [stock_codes |-> <<>>,
     config |-> [chunk_size |-> 1, success_threshold |-> 100, auto_rollback |-> TRUE,
                 continue_on_chunk_failure |-> TRUE, verify_after_delete |-> TRUE,
                 target_sections |-> <<>>]]

DeleteBatchInit ==
    /\ live \in DeleteLiveInputs
    /\ backups = EmptyDict
    /\ clock = 3
    /\ phase = "idle"
    /\ args = NoDeleteArgs
    /\ chunks = <<>>
    /\ result = NewResult(0, 0)
    /\ chunk_log = <<>>
    /\ at_call = Fs(live, backups)
    /\ io = <<>>

\* _batch_delete_sections up to the loop: a ValidationError is raised, or the
\* result object is set up and the delete map is split (lines 598-622)
BatchDeleteSections(stock_codes, config) ==
    /\ phase = "idle"
    /\ args' = [stock_codes |-> stock_codes, config |-> config]
    /\ at_call' = Fs(live, backups)
    /\ io' = <<>>
    /\ IF validate_delete_inputs(stock_codes, config) /\ config.target_sections # <<>>
       THEN LET split == split_delete_map_into_chunks(DeleteMapKeys(stock_codes),
                                                      config.chunk_size)
            IN /\ phase' = "running"
               /\ chunks' = split
               /\ result' = NewResult(Len(stock_codes) * Len(config.target_sections),
                                      Len(split))
       ELSE /\ phase' = "raised"
            /\ UNCHANGED <<chunks, result>>
    /\ UNCHANGED <<live, backups, clock, chunk_log>>

\* one turn of the loop: _process_delete_chunk and the bookkeeping of lines
\* 628-645
ProcessDeleteChunk ==
    /\ phase = "running"
    /\ chunks # <<>>
    /\ \E o \in process_delete_chunk(Fs(live, backups), Head(chunks),
                                     args.config.target_sections, args.config, clock) :
        /\ live' = o.fs.live
        /\ backups' = o.fs.backups
        /\ io' = io \o o.ops
        /\ chunk_log' = Append(chunk_log,
                               [before |-> o.log.before, to_save |-> o.log.to_save,
                                after |-> o.log.after, chunk_data |-> Head(chunks),
                                ops |-> o.ops])
        /\ result' =
             IF o.res.success
             THEN [result EXCEPT
                     !.chunk_results = Append(@, o.res),
                     !.successful_chunks = @ + 1,
                     !.successful_items = @ \o o.res.successful_items]
             ELSE [result EXCEPT
                     !.chunk_results = Append(@, o.res),
                     !.failed_chunks = @ + 1,
                     !.failed_items = @ \o o.res.failed_items,
                     !.errors = @ \o o.res.errors,
                     !.rolled_back_chunks = IF o.res.rolled_back THEN @ + 1 ELSE @]
        /\ chunks' = IF StopsAfter(o.res, args.config) THEN <<>> ELSE Tail(chunks)
    /\ UNCHANGED <<clock, phase, args, at_call>>

\* after the loop: overall_success_rate is computed and the result returned
\* (lines 648-659)
DeleteReturn ==
    /\ phase = "running"
    /\ chunks = <<>>
    /\ phase' = "returned"
    /\ result' = [result EXCEPT !.overall_success_rate =
                     IF result.total_items > 0
                     THEN [num |-> Len(result.successful_items) * 100,
                           den |-> result.total_items]
                     ELSE [num |-> 0, den |-> 1]]
    /\ UNCHANGED <<live, backups, clock, args, chunks, chunk_log, at_call, io>>

----------------------------------------------------------------------------
(* safe_batch_service.py: SafeBatchService._batch_delete_tipwords *)

\* tag in tags_to_remove
TagListed(tag, tags_to_remove) ==
    \E i \in 1..Len(tags_to_remove) : tags_to_remove[i] = tag

\* a filter that keeps every tag
KeepAllTags(current_tags, tags_to_remove) == current_tags

\* [tag for tag in current_tags if tag not in tags_to_remove]
RECURSIVE KeptTags(_, _)
KeptTags(current_tags, tags_to_remove) ==
    IF current_tags = <<>> THEN <<>>
    ELSE (IF TagListed(Head(current_tags), tags_to_remove)
          THEN <<>> ELSE <<Head(current_tags)>>)
         \o KeptTags(Tail(current_tags), tags_to_remove)

\* the body of the loop over chunk_data.items() (lines 934-961) for one code:
\* the data after it, whether the code succeeded, the text appended to
\* successful_items or failed_items, whether an error was appended, and the
\* code's TIPWORD record before and after
RemoveTags(code, tags_to_remove, d) ==
    LET full == convert_to_8digit(code)
        had == full.ok /\ TIPWORD \in DOMAIN d /\ full.value \in DOMAIN d[TIPWORD]
        current_tipword == IF had THEN d[TIPWORD][full.value] ELSE <<>>
        current_tags == IF current_tipword # <<>>
                        THEN Split(current_tipword, TIPWORD_SEPARATOR) ELSE <<>>
        new_tags == KeptTags(current_tags, tags_to_remove)
        step(d1, success, text, error) ==
            [data |-> d1, code |-> code, tags |-> tags_to_remove, success |-> success,
             text |-> text, error |-> error,
             had |-> had, old |-> current_tipword,
             has |-> full.ok /\ TIPWORD \in DOMAIN d1 /\ full.value \in DOMAIN d1[TIPWORD],
             new |-> IF full.ok /\ TIPWORD \in DOMAIN d1 /\ full.value \in DOMAIN d1[TIPWORD]
                     THEN d1[TIPWORD][full.value] ELSE <<>>]
    IN IF ~full.ok THEN step(d, FALSE, "error", TRUE)
       ELSE IF ~had THEN step(d, FALSE, "no TIPWORD data", FALSE)
       ELSE IF Len(new_tags) < Len(current_tags)
       THEN IF new_tags # <<>>
            THEN step([d EXCEPT ![TIPWORD][full.value] = Join(new_tags, TIPWORD_SEPARATOR)],
                      TRUE, "removed", FALSE)
            ELSE step([d EXCEPT ![TIPWORD] = DictDel(@, full.value)],
                      TRUE, "removed", FALSE)
       ELSE step(d, FALSE, "no such tag", FALSE)

\* for stock_code, tags_to_remove in chunk_data.items(): the data after the
\* loop and what each code did, in order
RECURSIVE TipwordLoop(_, _)
TipwordLoop(chunk_data, d) ==
    IF chunk_data = <<>> THEN [data |-> d, steps |-> <<>>]
    ELSE LET r == RemoveTags(Head(chunk_data).code, Head(chunk_data).tags, d)
             rest == TipwordLoop(Tail(chunk_data), r.data)
         IN [data |-> rest.data, steps |-> <<r>> \o rest.steps]

\* successful_items or failed_items of a chunk: code and appended text
RECURSIVE StepItems(_, _)
StepItems(steps, success) ==
    IF steps = <<>> THEN <<>>
    ELSE (IF Head(steps).success = success
          THEN <<[code |-> Head(steps).code, tags |-> Head(steps).tags,
                  text |-> Head(steps).text]>>
          ELSE <<>>)
         \o StepItems(Tail(steps), success)

\* chunk_result.errors after the loop: one message per code that raised
RECURSIVE StepErrors(_)
StepErrors(steps) ==
    IF steps = <<>> THEN <<>>
    ELSE (IF Head(steps).error THEN <<"item">> ELSE <<>>) \o StepErrors(Tail(steps))

\* what one chunk did, with the map loaded, the steps of the loop and the map
\* after the loop; raised: an exception left _process_tipword_delete_chunk
TipwordOutcome(fs0, fs1, res, ops, loaded, steps, d, raised) ==
    [fs |-> fs1, res |-> res, ops |-> ops, raised |-> raised,
     log |-> [before |-> fs0.live, after |-> fs1.live, loaded |-> loaded,
              steps |-> steps, data |-> d]]

\* the except branch of _process_tipword_delete_chunk (lines 981-990): the
\* copy of the rollback is not guarded, its exception leaves the function
OnTipwordException(fs0, fs1, b, loaded, steps, d, ops, config) ==
    LET ok == StepItems(steps, TRUE)
        bad == StepItems(steps, FALSE)
        c == copy_back(fs1, b.path)
    IN IF config.auto_rollback /\ b.path # <<>>
       THEN IF c.ok
            THEN TipwordOutcome(fs0, c.fs,
                     ChunkResult(FALSE, ok, bad, StepErrors(steps) \o <<"exception">>,
                                 b.path, TRUE),
                     ops \o <<"restore">>, loaded, steps, d, FALSE)
            ELSE TipwordOutcome(fs0, fs1,
                     ChunkResult(FALSE, ok, bad, StepErrors(steps) \o <<"exception">>,
                                 b.path, FALSE),
                     ops, loaded, steps, d, TRUE)
       ELSE TipwordOutcome(fs0, fs1,
                ChunkResult(FALSE, ok, bad, StepErrors(steps) \o <<"exception">>,
                            b.path, FALSE),
                ops, loaded, steps, d, FALSE)

\* _process_tipword_delete_chunk after a successful create_backup (lines
\* 927-979); no integrity check precedes the save
AfterTipwordBackup(fs0, b, chunk_data, config, t) ==
    LET loaded == load_data(b.fs)
        looped == TipwordLoop(chunk_data, loaded.value)
        ok == StepItems(looped.steps, TRUE)
        bad == StepItems(looped.steps, FALSE)
        errs == StepErrors(looped.steps)
        c == copy_back(b.fs, b.path)
    IN IF ~loaded.ok
       THEN { OnTipwordException(fs0, b.fs, b, EmptyDict, <<>>, EmptyDict,
                                 <<"backup">>, config) }
       ELSE IF RateReaches(Len(ok), Len(chunk_data), config.success_threshold)
       THEN { TipwordOutcome(fs0, w.fs, ChunkResult(TRUE, ok, bad, errs, b.path, FALSE),
                             <<"backup", "read", "backup", "write">>,
                             loaded.value, looped.steps, looped.data, FALSE) :
              w \in save_data(b.fs, looped.data, t) }
       ELSE IF config.auto_rollback
       THEN IF c.ok
            THEN { TipwordOutcome(fs0, c.fs,
                       ChunkResult(FALSE, ok, bad, errs, b.path, TRUE),
                       <<"backup", "read", "restore">>,
                       loaded.value, looped.steps, looped.data, FALSE) }
            ELSE { OnTipwordException(fs0, b.fs, b, loaded.value, looped.steps,
                                      looped.data, <<"backup", "read">>, config) }
       ELSE { TipwordOutcome(fs0, b.fs, ChunkResult(FALSE, ok, bad, errs, b.path, FALSE),
                             <<"backup", "read">>,
                             loaded.value, looped.steps, looped.data, FALSE) }

\* _process_tipword_delete_chunk at second t: every outcome
process_tipword_delete_chunk(fs, chunk_data, config, t) ==
    UNION { IF ~b.ok
            THEN { TipwordOutcome(fs, fs,
                       ChunkResult(FALSE, <<>>, <<>>, <<"backup">>, <<>>, FALSE),
                       <<>>, EmptyDict, <<>>, EmptyDict, FALSE) }
            ELSE AfterTipwordBackup(fs, b, chunk_data, config, t) :
            b \in create_backup(fs, t) }

\* _split_tipword_map_into_chunks, chunk_size >= 1: the same slicing as
\* _split_into_chunks, on the items of the tag map
split_tipword_map_into_chunks(tipword_map, chunk_size) ==
    split_into_chunks(tipword_map, chunk_size)

\* sum(len(tags) for tags in tipword_map.values())
RECURSIVE TotalTags(_)
TotalTags(tipword_map) ==
    IF tipword_map = <<>> THEN 0
    ELSE Len(Head(tipword_map).tags) + TotalTags(Tail(tipword_map))

\* the items of a tag map: for 600613 one stored tag, two stored tags in
\* another order than stored, no tag, an absent tag; the same record under its
\* 8-digit code; a record left with an empty tag; a code without TIPWORD
\* record; a 5-digit code
TipwordItems ==
    { [code |-> C600613, tags |-> <<<<"x">>>>],
      [code |-> C600613, tags |-> <<<<"y">>, <<"x">>>>],
      [code |-> C600613, tags |-> <<>>],
      [code |-> C600613, tags |-> <<<<"q">>>>],
      [code |-> F01600613, tags |-> <<<<"z">>>>],
      [code |-> C000001, tags |-> <<<<"x">>>>],
      [code |-> <<"0", "0", "0", "0", "0", "2">>, tags |-> <<<<"x">>>>],
      [code |-> <<"6", "0", "0", "6", "1">>, tags |-> <<<<"x">>>>] }

\* the tag maps: up to MaxUpdates items in insertion order, keys distinct
RECURSIVE TipwordMaps(_)
TipwordMaps(n) ==
    IF n = 0 THEN {<<>>}
    ELSE LET shorter == TipwordMaps(n - 1)
         IN shorter \cup
            { Append(u, item) : u \in { x \in shorter : Len(x) = n - 1 },
                                item \in TipwordItems }

TipwordMapPool == { u \in TipwordMaps(MaxUpdates) : DistinctKeys(u) }

\* SafeDeleteConfig; target_sections and verify_after_delete are not read
TipwordConfigPool ==
    [chunk_size : {1, 2}, success_threshold : {0, 100}, auto_rollback : BOOLEAN,
     continue_on_chunk_failure : BOOLEAN]

\* mark.dat with the TIPWORD values "/x" (an empty tag first), "x/z/x/y" and a
\* TIP record
TipwordRecords ==
    <<SaveHeader(TIP), F01600613 \o <<"=", "A">>, <<>>,
      SaveHeader(TIPWORD), F00000001 \o <<"=", "/", "x">>,
      F01600613 \o <<"=", "x", "/", "z", "/", "x", "/", "y">>, <<>>>>

\* mark.dat when the call is made: missing or holding these records
TipwordLiveInputs == {NoFile, File(Join(TipwordRecords, "\n"), 1)}

NoTipwordArgs ==
    [tipword_map |-> <<>>,
     config |-> [chunk_size |-> 1, success_threshold |-> 100, auto_rollback |-> TRUE,
                 continue_on_chunk_failure |-> TRUE]]

TipwordInit ==
    /\ live \in TipwordLiveInputs
    /\ backups = EmptyDict
    /\ clock = 3
    /\ phase = "idle"
    /\ args = NoTipwordArgs
    /\ chunks = <<>>
    /\ result = NewResult(0, 0)
    /\ chunk_log = <<>>
    /\ at_call = Fs(live, backups)
    /\ io = <<>>

\* _batch_delete_tipwords up to the loop (lines 750-763); nothing is validated
BatchDeleteTipwords(tipword_map, config) ==
    /\ phase = "idle"
    /\ args' = [tipword_map |-> tipword_map, config |-> config]
    /\ at_call' = Fs(live, backups)
    /\ io' = <<>>
    /\ phase' = "running"
    /\ chunks' = split_tipword_map_into_chunks(tipword_map, config.chunk_size)
    /\ result' = NewResult(TotalTags(tipword_map),
                           Len(split_tipword_map_into_chunks(tipword_map,
                                                             config.chunk_size)))
    /\ UNCHANGED <<live, backups, clock, chunk_log>>

\* one turn of the loop: _process_tipword_delete_chunk and the bookkeeping of
\* lines 767-786; an exception leaving the chunk ends the call (lines 803-806)
ProcessTipwordChunk ==
    /\ phase = "running"
    /\ chunks # <<>>
    /\ \E o \in process_tipword_delete_chunk(Fs(live, backups), Head(chunks),
                                             args.config, clock) :
        /\ live' = o.fs.live
        /\ backups' = o.fs.backups
        /\ io' = io \o o.ops
        /\ IF o.raised
           THEN /\ phase' = "raised"
                /\ UNCHANGED <<chunk_log, result, chunks>>
           ELSE /\ phase' = phase
                /\ chunk_log' = Append(chunk_log,
                                       [before |-> o.log.before, after |-> o.log.after,
                                        loaded |-> o.log.loaded, steps |-> o.log.steps,
                                        data |-> o.log.data,
                                        chunk_data |-> Head(chunks), ops |-> o.ops])
                /\ result' =
                     IF o.res.success
                     THEN [result EXCEPT
                             !.chunk_results = Append(@, o.res),
                             !.successful_chunks = @ + 1,
                             !.successful_items = @ \o o.res.successful_items]
                     ELSE [result EXCEPT
                             !.chunk_results = Append(@, o.res),
                             !.failed_chunks = @ + 1,
                             !.failed_items = @ \o o.res.failed_items,
                             !.errors = @ \o o.res.errors,
                             !.rolled_back_chunks = IF o.res.rolled_back THEN @ + 1 ELSE @]
                /\ chunks' = IF StopsAfter(o.res, args.config) THEN <<>> ELSE Tail(chunks)
    /\ UNCHANGED <<clock, args, at_call>>

\* after the loop: overall_success_rate is computed and the result returned
\* (lines 788-800)
TipwordReturn ==
    /\ phase = "running"
    /\ chunks = <<>>
    /\ phase' = "returned"
    /\ result' = [result EXCEPT !.overall_success_rate =
                     IF result.total_items > 0
                     THEN [num |-> Len(result.successful_items) * 100,
                           den |-> result.total_items]
                     ELSE [num |-> 0, den |-> 1]]
    /\ UNCHANGED <<live, backups, clock, args, chunks, chunk_log, at_call, io>>

----------------------------------------------------------------------------
(* safe_batch_service.py: SafeBatchService._batch_clear_empty *)

\* empty_items: the (section, code) pairs with an empty or blank value, the
\* sections in the order of sections_to_check, the codes of a section sorted
RECURSIVE EmptyItems(_, _)
EmptyItems(d, sections) ==
    IF sections = <<>> THEN <<>>
    ELSE LET section == Head(sections)
             codes == IF section \in DOMAIN d
                      THEN Sorted({ code \in DOMAIN d[section] :
                                      d[section][code] = <<>>
                                      \/ Strip(d[section][code]) = <<>> })
                      ELSE <<>>
         IN [i \in 1..Len(codes) |-> [section |-> section, code |-> codes[i]]]
            \o EmptyItems(d, Tail(sections))

\* _batch_clear_empty after create_backup returned (lines 683-735): every
\* outcome [fs, res, ops]
AfterClearBackup(b, config, t) ==
    LET loaded == load_data(b.fs).value
        sections_to_check == IF config.target_sections # <<>>
                             THEN config.target_sections
                             ELSE Sorted(DOMAIN loaded)
        empty_items == EmptyItems(loaded, sections_to_check)
        res == NewResult(Len(empty_items), 1)
        cleaned == clear_empty_values(loaded)
        back == copy_back(b.fs, b.path)
    IN IF empty_items = <<>>
       THEN { [fs |-> b.fs, ops |-> <<"backup", "read">>,
               res |-> [res EXCEPT !.successful_chunks = 1,
                                   !.overall_success_rate = [num |-> 100, den |-> 1]]] }
       ELSE IF config.validate_before_save /\ invalid_codes(cleaned.data) # {}
       THEN { [fs |-> IF config.auto_rollback THEN back.fs ELSE b.fs,
               ops |-> <<"backup", "read">>
                       \o (IF config.auto_rollback THEN <<"restore">> ELSE <<>>),
               res |-> [res EXCEPT !.failed_chunks = 1,
                                   !.rolled_back_chunks =
                                       IF config.auto_rollback THEN 1 ELSE 0,
                                   !.errors = <<"invalid_codes">>]] }
       ELSE { [fs |-> w.fs, ops |-> <<"backup", "read", "backup", "write">>,
               res |-> [res EXCEPT !.successful_chunks = 1,
                                   !.successful_items = empty_items,
                                   !.overall_success_rate = [num |-> 100, den |-> 1]]] :
              w \in save_data(b.fs, cleaned.data, t) }

\* _batch_clear_empty(config) at second t: every outcome; raised is
\* TdxMarkException (create_backup found no file)
batch_clear_empty_impl(fs, config, t) ==
    UNION { IF ~b.ok
            THEN { [fs |-> fs, ops |-> <<>>, raised |-> TRUE, res |-> NewResult(0, 1)] }
            ELSE { [fs |-> o.fs, ops |-> o.ops, raised |-> FALSE, res |-> o.res] :
                   o \in AfterClearBackup(b, config, t) } :
            b \in create_backup(fs, t) }

\* the MARK record 00000001 and the TIP record 01600613 of mark.dat, each
\* absent, with an empty value, a blank value or a value
ClearRecordPool(code, value) ==
    { <<>>, <<code \o <<"=">>>>, <<code \o <<"=", " ">>>>, <<code \o <<"=">> \o value>> }

ClearLiveInputs ==
    { NoFile }
    \cup { File(Join(<<SaveHeader(MARK)>> \o m \o <<F01600613 \o <<"=", "1">>, <<>>,
                       SaveHeader(TIP)>> \o tp \o <<<<>>>>, "\n"), 1) :
             m \in ClearRecordPool(F00000001, <<"2">>),
             tp \in ClearRecordPool(F01600613, <<"B">>) }

ClearConfigPool ==
    [target_sections : {<<>>, <<TIP>>, <<MARK>>, <<TIP, MARK>>, <<TIPWORD>>},
     auto_rollback : BOOLEAN, validate_before_save : BOOLEAN]

NoClearArgs == [config |-> [target_sections |-> <<>>, auto_rollback |-> TRUE,
                            validate_before_save |-> TRUE]]

ClearBatchInit ==
    /\ live \in ClearLiveInputs
    /\ backups = EmptyDict
    /\ clock = 3
    /\ phase = "idle"
    /\ args = NoClearArgs
    /\ chunks = <<>>
    /\ result = NewResult(0, 0)
    /\ chunk_log = <<>>
    /\ at_call = Fs(live, backups)
    /\ io = <<>>

\* batch_clear_empty(config): the whole call
BatchClearEmpty(config) ==
    /\ phase = "idle"
    /\ args' = [config |-> config]
    /\ at_call' = Fs(live, backups)
    /\ \E o \in batch_clear_empty_impl(Fs(live, backups), config, clock) :
        /\ live' = o.fs.live
        /\ backups' = o.fs.backups
        /\ io' = o.ops
        /\ result' = o.res
        /\ phase' = IF o.raised THEN "raised" ELSE "returned"
    /\ UNCHANGED <<clock, chunks, chunk_log>>

\* a second passes before the call
ClearTick ==
    /\ phase = "idle"
    /\ clock < 3 + MaxTime
    /\ clock' = clock + 1
    /\ UNCHANGED <<live, backups, phase, args, chunks, result, chunk_log, at_call, io>>

----------------------------------------------------------------------------
(* tdx_mark_manager.py: safe_update on the file and the backup directory *)

\* _calculate_data_hash: md5 of json.dumps(data, sort_keys=True); two maps
\* have the same hash exactly when they are equal
calculate_data_hash(d) == [md5_of |-> d]

\* a file the callable may write: one valid record and one line whose key has
\* three digits
BadKeyRecord ==
    <<SaveHeader(TIP), F00000001 \o <<"=", "A">>, <<"1", "2", "3", "=", "B">>, <<>>>>

\* the update callables: what they do to mark.dat and how they end
CallablePool ==
    [effect : {"none", "write", "write_bad_key", "delete"},
     returns : {"True", "False", "None", "raises"}]

NoCallable == [effect |-> "none", returns |-> "None"]

\* the file system after the callable has run at second t
apply_effect(fs, effect, t) ==
    CASE effect = "none" -> fs
      [] effect = "write" -> Fs(File(Join(TipRecord, "\n"), t), fs.backups)
      [] effect = "write_bad_key" -> Fs(File(Join(BadKeyRecord, "\n"), t), fs.backups)
      [] effect = "delete" -> Fs(NoFile, fs.backups)

\* the dicts safe_update returns; absent keys are <<>>
SuResult(success, rolled_back, error, res, backup_path, original_hash) ==
    [success |-> success, rolled_back |-> rolled_back, error |-> error,
     result |-> res, backup_path |-> backup_path, original_hash |-> original_hash]

\* except Exception as e: return {'success': False, 'error': str(e)}
SuFault == SuResult(FALSE, <<>>, <<"error">>, <<>>, <<>>, <<>>)

NoSuResult == SuResult(FALSE, <<>>, <<>>, <<>>, <<>>, <<>>)

NoTrace == [ran |-> FALSE, backup_at_run |-> FALSE, invalid_reported |-> FALSE]

SuOutcome(fs, res, ops, trace) == [fs |-> fs, res |-> res, ops |-> ops, trace |-> trace]

\* safe_update after create_backup returned (lines 1516-1544)
SuAfterBackup(b, f, t) ==
    LET original_data == load_data(b.fs)
        original_hash == calculate_data_hash(original_data.value)
        fs2 == apply_effect(b.fs, f.effect, t)
        updated_data == load_data(fs2)
        c == copy_back(fs2, b.path)
        ran == [ran |-> TRUE,
                backup_at_run |-> /\ b.path[1] \in DOMAIN b.fs.backups
                                  /\ b.fs.backups[b.path[1]].content = b.fs.live.content,
                invalid_reported |-> FALSE]
    IN IF ~original_data.ok
       THEN SuOutcome(b.fs, SuFault, <<"backup">>, NoTrace)
       ELSE IF f.returns = "raises"
       THEN SuOutcome(fs2, SuFault, <<"backup", "read", "call">>, ran)
       ELSE IF f.returns = "True"
       THEN IF ~updated_data.ok
            THEN SuOutcome(fs2, SuFault, <<"backup", "read", "call">>, ran)
            ELSE IF invalid_codes(updated_data.value) # {}
            THEN IF c.ok
                 THEN SuOutcome(c.fs, SuResult(FALSE, <<TRUE>>, <<>>, <<>>, b.path, <<>>),
                                <<"backup", "read", "call", "read", "restore">>,
                                [ran EXCEPT !.invalid_reported = TRUE])
                 ELSE SuOutcome(fs2, SuFault, <<"backup", "read", "call", "read">>,
                                [ran EXCEPT !.invalid_reported = TRUE])
            ELSE SuOutcome(fs2,
                           SuResult(TRUE, <<>>, <<>>, <<f.returns>>, b.path,
                                    <<original_hash>>),
                           <<"backup", "read", "call", "read">>, ran)
       ELSE SuOutcome(fs2,
                      SuResult(TRUE, <<>>, <<>>, <<f.returns>>, b.path, <<original_hash>>),
                      <<"backup", "read", "call">>, ran)

\* safe_update(update_func) at second t: every outcome
safe_update(fs, f, t) ==
    { IF ~b.ok THEN SuOutcome(fs, SuFault, <<>>, NoTrace) ELSE SuAfterBackup(b, f, t) :
      b \in create_backup(fs, t) }

SuIdle ==
    /\ su_func = NoCallable
    /\ su_result = NoSuResult
    /\ su_trace = NoTrace

\* safe_update(update_func): the whole call
SafeUpdate(f) ==
    /\ phase = "idle"
    /\ su_func' = f
    /\ at_call' = Fs(live, backups)
    /\ \E o \in safe_update(Fs(live, backups), f, clock) :
        /\ live' = o.fs.live
        /\ backups' = o.fs.backups
        /\ io' = o.ops
        /\ su_result' = o.res
        /\ su_trace' = o.trace
    /\ phase' = "returned"
    /\ UNCHANGED <<clock, args, chunks, result, chunk_log>>

\* a second passes before the call
SuTick ==
    /\ phase = "idle"
    /\ clock < 3 + MaxTime
    /\ clock' = clock + 1
    /\ UNCHANGED <<live, backups, phase, args, chunks, result, chunk_log, at_call, io>>
    /\ UNCHANGED suVars

----------------------------------------------------------------------------
(* tdx_mark_manager.py: create_backup called again and again *)

NotCreated == [ok |-> FALSE, path |-> <<>>]

BkIdle == created = NotCreated

\* create_backup(): the whole call, pruning included
CreateBackup ==
    /\ phase = "idle"
    /\ at_call' = Fs(live, backups)
    /\ \E b \in create_backup(Fs(live, backups), clock) :
        /\ backups' = b.fs.backups
        /\ created' = [ok |-> b.ok, path |-> b.path]
    /\ UNCHANGED <<live, clock, phase, args, chunks, result, chunk_log, io>>

\* mark.dat is written (f.write, or the program that owns the file)
WriteLive(text) ==
    /\ phase = "idle"
    /\ live' = File(text, clock)
    /\ UNCHANGED <<backups, clock, phase, args, chunks, result, chunk_log, at_call, io>>
    /\ UNCHANGED created

\* shutil.copy2(backup_path, mark_dat_path): the backup the last call
\* returned is copied over mark.dat
RollbackLive ==
    /\ phase = "idle"
    /\ created.ok
    /\ copy_back(Fs(live, backups), created.path).ok
    /\ live' = copy_back(Fs(live, backups), created.path).fs.live
    /\ UNCHANGED <<backups, clock, phase, args, chunks, result, chunk_log, at_call, io>>
    /\ UNCHANGED created

\* a second passes
BackupTick ==
    /\ phase = "idle"
    /\ clock < 3 + MaxTime
    /\ clock' = clock + 1
    /\ UNCHANGED <<live, backups, phase, args, chunks, result, chunk_log, at_call, io>>
    /\ UNCHANGED created

----------------------------------------------------------------------------
(* tdx_mark_manager.py: compare_files, called on each of two files *)

\* dict.get(code): <<>> is None, <<value>> a stored value
DictGet(records, code) == IF code \in DOMAIN records THEN <<records[code]>> ELSE <<>>

\* 'not value': None and the empty string alike
IsFalsy(v) == v = <<>> \/ v = << <<>> >>

\* 'value is None'
IsNone(v) == v = <<>>

\* the branch of the loop body a code takes
CompareBranch(value1, value2) ==
    IF IsNone(value1) THEN "only_in_file2"
    ELSE IF IsNone(value2) THEN "only_in_file1"
    ELSE IF value1 # value2 THEN "different_values"
    ELSE "common"

\* section_diff of one section; the three lists hold each code once and are
\* given as sets, their order being the iteration order of set(all_codes)
section_diff(data1_section, data2_section) ==
    LET all_codes == DOMAIN data1_section \cup DOMAIN data2_section
        value1(code) == DictGet(data1_section, code)
        value2(code) == DictGet(data2_section, code)
        taking(branch) ==
            { code \in all_codes : CompareBranch(value1(code), value2(code)) = branch }
    IN [only_in_file1 |-> { <<code, value1(code)>> : code \in taking("only_in_file1") },
        only_in_file2 |-> { <<code, value2(code)>> : code \in taking("only_in_file2") },
        different_values |->
            { <<code, value1(code), value2(code)>> : code \in taking("different_values") },
        common_count |-> Cardinality(taking("common"))]

NoComparison == [called |-> FALSE, ok |-> FALSE, differences |-> EmptyDict]

\* compare_files of the manager of file1 with the path of file2; ok = FALSE is
\* the {'error': ...} dict of the except branch
compare_files(file1, file2) ==
    IF ~file1.exists \/ ~file2.exists
    THEN [called |-> TRUE, ok |-> FALSE, differences |-> EmptyDict]
    ELSE LET data1 == parse_content(file1.content)
             data2 == parse_content(file2.content)
             all_sections == DOMAIN data1 \cup DOMAIN data2
             get(d, section) == IF section \in DOMAIN d THEN d[section] ELSE EmptyDict
         IN [called |-> TRUE, ok |-> TRUE,
             differences |-> [section \in all_sections |->
                                section_diff(get(data1, section), get(data2, section))]]

\* the lines a section of a compared file can have: absent, or its header
\* followed by a record of the first code or none, and one of the second or none
CompareSectionPool(section) ==
    { <<>> }
    \cup { <<SaveHeader(section)>> \o first \o second :
            first \in { <<>>, <<F01600613 \o <<"=", "A">>>>, <<F01600613 \o <<"=", "B">>>>,
                        <<F01600613 \o <<"=">>>> },
            second \in { <<>>, <<F00000001 \o <<"=", "A">>>> } }

\* the files compared
CompareFilePool ==
    { NoFile }
    \cup { File(Join(tip \o tipword, "\n"), 1) :
            tip \in CompareSectionPool(TIP), tipword \in CompareSectionPool(TIPWORD) }

CmpIdle ==
    /\ file_a = NoFile
    /\ file_b = NoFile
    /\ a_vs_b = NoComparison
    /\ b_vs_a = NoComparison

CmpInit ==
    /\ file_a \in CompareFilePool
    /\ file_b \in CompareFilePool
    /\ a_vs_b = NoComparison
    /\ b_vs_a = NoComparison

\* TdxMarkManager(path of file_a).compare_files(path of file_b)
CompareAWithB ==
    /\ ~a_vs_b.called
    /\ a_vs_b' = compare_files(file_a, file_b)
    /\ UNCHANGED <<file_a, file_b, b_vs_a>>

\* TdxMarkManager(path of file_b).compare_files(path of file_a)
CompareBWithA ==
    /\ ~b_vs_a.called
    /\ b_vs_a' = compare_files(file_b, file_a)
    /\ UNCHANGED <<file_a, file_b, a_vs_b>>

----------------------------------------------------------------------------
(* tdx_mark_manager.py: test_functionality on the live file *)

\* bytes.decode('gbk') succeeds: "0xFF" stands for a byte that is no GBK text
GbkDecodable(text) == \A i \in 1..Len(text) : text[i] # "0xFF"

\* read_file(create_backup=False): [ok, value]; ok = FALSE is
\* FileNotFoundError or UnicodeDecodeError
read_file(fs) ==
    IF ~fs.live.exists \/ ~GbkDecodable(fs.live.content) THEN Raised
    ELSE Returned(fs.live.content)

\* the keys of test_results, in the order the checks are made
TestNames == <<"existence", "read", "parse", "validation", "backup">>

NoTestResults ==
    [called |-> FALSE, existence |-> FALSE, read |-> FALSE, parse |-> FALSE,
     validation |-> FALSE, backup |-> FALSE]

\* test_functionality at second t: [results, attempted, fs] for every outcome
test_functionality(fs, t) ==
    LET none == [NoTestResults EXCEPT !.called = TRUE] IN
    IF ~fs.live.exists
    THEN { [results |-> none, attempted |-> <<"existence">>, fs |-> fs] }
    ELSE IF ~read_file(fs).ok
    THEN { [results |-> [none EXCEPT !.existence = TRUE],
            attempted |-> <<"existence", "read">>, fs |-> fs] }
    ELSE LET read_content == read_file(fs).value
             parsed_data == parse_content(read_content)
         IN { [results |-> [none EXCEPT !.existence = TRUE,
                                        !.read = (read_content # <<>>),
                                        !.parse = (DOMAIN parsed_data # {}),
                                        !.validation = TRUE,
                                        !.backup = (b.ok /\ b.path[1] \in DOMAIN b.fs.backups)],
               attempted |-> TestNames,
               fs |-> b.fs] : b \in create_backup(fs, t) }

\* mark.dat when the self-test runs: missing, empty, not GBK text, holding
\* only an unknown section, or holding one TIP record
TestFilePool ==
    { NoFile, File(<<>>, 1), File(<<"0xFF">>, 1), File(<<"[", "X", "]">>, 1),
      File(Join(TipRecord, "\n"), 1) }

TfIdle ==
    /\ test_results = NoTestResults
    /\ attempted = <<>>

TfInit ==
    /\ live \in TestFilePool
    /\ backups \in BackupInputs
    /\ clock = 3
    /\ phase = "idle"
    /\ args = NoArgs
    /\ chunks = <<>>
    /\ result = NewResult(0, 0)
    /\ chunk_log = <<>>
    /\ at_call = Fs(live, backups)
    /\ io = <<>>
    /\ TfIdle

\* test_functionality(): the whole call
TestFunctionality ==
    /\ at_call' = Fs(live, backups)
    /\ \E o \in test_functionality(Fs(live, backups), clock) :
        /\ test_results' = o.results
        /\ attempted' = o.attempted
        /\ live' = o.fs.live
        /\ backups' = o.fs.backups
    /\ UNCHANGED <<clock, phase, args, chunks, result, chunk_log, io>>

\* mark.dat is replaced between two runs of the self-test
ReplaceLive(f) ==
    /\ live' = f
    /\ UNCHANGED <<backups, clock, phase, args, chunks, result, chunk_log, at_call, io>>
    /\ UNCHANGED tfVars

\* a second passes
TfTick ==
    /\ clock < 3 + MaxTime
    /\ clock' = clock + 1
    /\ UNCHANGED <<live, backups, phase, args, chunks, result, chunk_log, at_call, io>>
    /\ UNCHANGED tfVars

----------------------------------------------------------------------------
(* validators.validate_stock_code called once *)

NotValidated == [called |-> FALSE, ok |-> FALSE, value |-> <<>>]

ValIdle ==
    /\ code_arg = <<>>
    /\ allow_short_arg = TRUE
    /\ validated = NotValidated

\* the codes passed: those of CodeInputs, a Beijing code, seven and nine
\* digits, whitespace only, a padded full code, a full code with a fullwidth digit
ValidateCodePool ==
    CodeInputs
    \cup { <<"0", "2">> \o C600613, <<"0">> \o C600613, <<"0", "0", "1">> \o C600613,
           <<" ">>, <<"0", "1">> \o C600613 \o <<"\n">>,
           <<"0", "1", "U+FF11", "0", "0", "6", "1", "3">> }

ValInit ==
    /\ code_arg \in ValidateCodePool
    /\ allow_short_arg \in BOOLEAN
    /\ validated = NotValidated

\* validate_stock_code(code, allow_short)
ValidateStockCode ==
    /\ ~validated.called
    /\ LET r == validate_stock_code(code_arg, allow_short_arg) IN
        validated' = [called |-> TRUE, ok |-> r.ok, value |-> r.value]
    /\ UNCHANGED <<code_arg, allow_short_arg>>

----------------------------------------------------------------------------
(* safe_batch_service.py: safe_batch_query with a list of codes, and the   *)
(* cross-section cache of the manager it reads                             *)

\* _cached_all_data is None
NoCache == [built |-> FALSE, value |-> EmptyDict]

\* the projection _read_all_data_cached builds: code -> section -> value
AllDataOf(d) ==
    [code \in UNION { DOMAIN d[section] : section \in DOMAIN d } |->
        [section \in SectionSet |-> GetValue(d, section, code)]]

\* a read that loads the file on every call
ReadAllDataUncached(c, fs) ==
    IF ~load_data(fs).ok THEN [ok |-> FALSE, value |-> EmptyDict, cache |-> c]
    ELSE [ok |-> TRUE, value |-> AllDataOf(load_data(fs).value),
          cache |-> [built |-> TRUE, value |-> AllDataOf(load_data(fs).value)]]

\* _read_all_data_cached: [ok, value, cache]; ok = FALSE is the
\* FileNotFoundError of load_data
read_all_data_cached(c, fs) ==
    IF c.built THEN [ok |-> TRUE, value |-> c.value, cache |-> c]
    ELSE IF ~load_data(fs).ok THEN [ok |-> FALSE, value |-> EmptyDict, cache |-> c]
    ELSE [ok |-> TRUE, value |-> AllDataOf(load_data(fs).value),
          cache |-> [built |-> TRUE, value |-> AllDataOf(load_data(fs).value)]]

\* the fields of the dataclass models.StockInfo
StockInfoFields ==
    {"stock_code", "full_code", "market", "mark", "tip", "tipword", "tipcolor", "time"}

\* StockInfo(**kw): [ok, value]; ok = FALSE is the TypeError of an unexpected
\* keyword argument or the StockCodeError of __post_init__
StockInfo(kw) ==
    IF ~(DOMAIN kw \subseteq StockInfoFields) THEN Raised
    ELSE IF ~validate_stock_code(kw.full_code, FALSE).ok THEN Raised
    ELSE Returned(kw)

\* the full code _query_by_codes looks up for a listed code; <<>> when the
\* entry is skipped
QueryFullCode(code) ==
    LET clean_code == Strip(code) IN
    IF clean_code = <<>> THEN <<>>
    ELSE IF Len(clean_code) = 6 /\ IsDigit(clean_code)
    THEN LET two == SubSeq(clean_code, 1, 2) IN
         IF two \in {<<"6", "0">>, <<"6", "8">>, <<"5", "1">>} THEN <<"0", "1">> \o clean_code
         ELSE IF two \in {<<"0", "0">>, <<"3", "0">>, <<"1", "2">>, <<"1", "5">>}
         THEN <<"0", "0">> \o clean_code
         ELSE IF two \in {<<"8", "2">>, <<"8", "3">>, <<"8", "7">>, <<"8", "8">>}
         THEN <<"0", "2">> \o clean_code
         ELSE <<"0", "1">> \o clean_code
    ELSE IF Len(clean_code) = 8 /\ IsDigit(clean_code) THEN clean_code
    ELSE <<>>

\* the loop of _query_by_codes: [ok, value]; ok = FALSE is an exception
\* raised while a record is built
RECURSIVE QueryLoop(_, _)
QueryLoop(stock_codes, all_data) ==
    IF stock_codes = <<>> THEN Returned(<<>>)
    ELSE LET full_code == QueryFullCode(Head(stock_codes)) IN
         IF full_code = <<>> \/ full_code \notin DOMAIN all_data
         THEN QueryLoop(Tail(stock_codes), all_data)
         ELSE LET sections_data == all_data[full_code]
                  stock_info ==
                      StockInfo([stock_code |-> extract_stock_code(full_code).value,
                                 full_code |-> full_code,
                                 market |-> get_market_code(full_code).value,
                                 mark_level |-> sections_data[MARK],
                                 tip_text |-> sections_data[TIP],
                                 tipword_tags |-> Split(sections_data[TIPWORD], "/"),
                                 tip_color |-> sections_data[TIPCOLOR],
                                 time_info |-> sections_data[TIME]])
                  rest == QueryLoop(Tail(stock_codes), all_data)
              IN IF ~stock_info.ok \/ ~rest.ok THEN Raised
                 ELSE Returned(<<stock_info.value>> \o rest.value)

\* safe_batch_query(list): [ok, value, cache]; ok = FALSE is TdxMarkException
safe_batch_query(stock_codes, c, fs) ==
    IF stock_codes = <<>> THEN [ok |-> TRUE, value |-> <<>>, cache |-> c]
    ELSE LET all_data == read_all_data_cached(c, fs) IN
         IF ~all_data.ok THEN [ok |-> FALSE, value |-> <<>>, cache |-> all_data.cache]
         ELSE LET found == QueryLoop(stock_codes, all_data.value) IN
              [ok |-> found.ok, value |-> found.value, cache |-> all_data.cache]

\* the entries of the lists passed: codes of six and eight digits, a blank
\* one, a malformed one
QueryCodePool == { C600613, F01600613, C000001, <<" ">>, <<"6", "0", "0", "6", "1">> }

\* the lists passed: empty, one entry, two entries
QueryPool ==
    { <<>> } \cup { <<a>> : a \in QueryCodePool }
    \cup { <<a, b>> : a \in QueryCodePool, b \in QueryCodePool }

\* the maps saved through the manager between queries
QuerySavePool ==
    { [s \in {TIP} |-> [c \in {F01600613} |-> <<"A">>]],
      [s \in {TIP} |-> [c \in {F00000001} |-> <<"A">>]] }

NoQueryResult == [called |-> FALSE, ok |-> FALSE, value |-> <<>>]

QueryIdle ==
    /\ cached_all_data = NoCache
    /\ query = <<>>
    /\ query_result = NoQueryResult

QueryInit ==
    /\ live \in LiveInputs
    /\ backups = EmptyDict
    /\ clock = 3
    /\ phase = "idle"
    /\ args = NoArgs
    /\ chunks = <<>>
    /\ result = NewResult(0, 0)
    /\ chunk_log = <<>>
    /\ at_call = Fs(live, backups)
    /\ io = <<>>
    /\ QueryIdle

\* safe_batch_query(stock_codes): the whole call
SafeBatchQuery(stock_codes) ==
    /\ LET r == safe_batch_query(stock_codes, cached_all_data, Fs(live, backups)) IN
        /\ query_result' = [called |-> TRUE, ok |-> r.ok, value |-> r.value]
        /\ cached_all_data' = r.cache
    /\ query' = stock_codes
    /\ at_call' = Fs(live, backups)
    /\ UNCHANGED <<live, backups, clock, phase, args, chunks, result, chunk_log, io>>

\* manager.save_data(d): the whole call, its backup included
QuerySaveData(d) ==
    /\ \E w \in save_data(Fs(live, backups), d, clock) :
        /\ live' = w.fs.live
        /\ backups' = w.fs.backups
    /\ UNCHANGED <<clock, phase, args, chunks, result, chunk_log, at_call, io>>
    /\ UNCHANGED queryVars

----------------------------------------------------------------------------
(* tdx_mark_manager.py: _add_to_history and audit_trail *)

\* if len(self._operation_history) > 1000
HistoryLimit == 1000

\* self._operation_history[-500:]
HistoryKept == 500

\* the number of entries ever appended
MaxEntries == 1002

\* seq[-k:] of Python for k >= 0: the whole list for k = 0, the last k
\* elements otherwise (all of them when there are fewer than k)
LastSlice(seq, k) ==
    IF k = 0 \/ k >= Len(seq) THEN seq
    ELSE SubSeq(seq, Len(seq) - k + 1, Len(seq))

\* _add_to_history: the history after the entry is appended
add_to_history(history, entry) ==
    LET appended == Append(history, entry) IN
    IF Len(appended) > HistoryLimit THEN LastSlice(appended, HistoryKept) ELSE appended

\* audit_trail(limit)
audit_trail(history, limit) ==
    IF history # <<>> THEN LastSlice(history, limit) ELSE <<>>

\* the limits callers pass; 50 is the default
TrailLimitPool == {0, 1, 2, 50, 1000}

NoTrail == [called |-> FALSE, limit |-> 0, history |-> <<>>, value |-> <<>>]

HistIdle ==
    /\ operation_history = <<>>
    /\ trail = NoTrail

\* an operation is recorded; the entries are numbered in the order they are
\* appended, and the list an earlier audit_trail returned is forgotten
AddToHistory ==
    /\ LET entry == IF operation_history = <<>> THEN 1
                    ELSE operation_history[Len(operation_history)] + 1
       IN /\ entry <= MaxEntries
          /\ operation_history' = add_to_history(operation_history, entry)
    /\ trail' = NoTrail

AuditTrail(limit) ==
    /\ trail' = [called |-> TRUE, limit |-> limit, history |-> operation_history,
                 value |-> audit_trail(operation_history, limit)]
    /\ UNCHANGED operation_history

----------------------------------------------------------------------------
(* the single-call groups at rest *)

ExtraIdle == ValIdle /\ QueryIdle /\ HistIdle

----------------------------------------------------------------------------
(* Specifications *)

NotText == <<codeVars, dataVars, lruVars, thrVars, mgrVars, batchVars, suVars, bkVars, cmpVars, tfVars, extraVars>>
NotCode == <<textVars, dataVars, lruVars, thrVars, mgrVars, batchVars, suVars, bkVars, cmpVars, tfVars, extraVars>>
NotData == <<textVars, codeVars, lruVars, thrVars, mgrVars, batchVars, suVars, bkVars, cmpVars, tfVars, extraVars>>
NotLru == <<textVars, codeVars, dataVars, thrVars, mgrVars, batchVars, suVars, bkVars, cmpVars, tfVars, extraVars>>
NotThr == <<textVars, codeVars, dataVars, mgrVars, batchVars, suVars, bkVars, cmpVars, tfVars, extraVars>>
NotBatch == <<textVars, codeVars, dataVars, lruVars, thrVars, mgrVars, suVars, bkVars, cmpVars, tfVars, extraVars>>
NotMgr == <<textVars, codeVars, dataVars, lruVars, thrVars, batchVars, suVars, bkVars, cmpVars, tfVars, extraVars>>

InitText == TextInit /\ CodeIdle /\ DataIdle /\ LruIdle /\ ThrIdle /\ MgrIdle /\ BatchIdle /\ SuIdle /\ BkIdle /\ CmpIdle /\ TfIdle /\ ExtraIdle

NextText ==
    \/ Parse /\ UNCHANGED NotText
    \/ Save /\ UNCHANGED NotText
    \/ Reparse /\ UNCHANGED NotText

SpecText == InitText /\ [][NextText]_vars

InitCode == CodeInit /\ TextIdle /\ DataIdle /\ LruIdle /\ ThrIdle /\ MgrIdle /\ BatchIdle /\ SuIdle /\ BkIdle /\ CmpIdle /\ TfIdle /\ ExtraIdle

NextCode ==
    \/ Convert /\ UNCHANGED NotCode
    \/ ConvertAgain /\ UNCHANGED NotCode

SpecCode == InitCode /\ [][NextCode]_vars

InitData == DataInit /\ TextIdle /\ CodeIdle /\ LruIdle /\ ThrIdle /\ MgrIdle /\ BatchIdle /\ SuIdle /\ BkIdle /\ CmpIdle /\ TfIdle /\ ExtraIdle

NextData ==
    \/ \E code \in StockCodePool, value \in ValuePool :
          UpdateTipword(code, value) /\ UNCHANGED NotData
    \/ \E code \in StockCodePool, section \in SectionArgPool, value \in ValuePool :
          UpdateSectionValue(code, section, value) /\ UNCHANGED NotData
    \/ MergeDuplicateTipwords /\ UNCHANGED NotData

SpecData == InitData /\ [][NextData]_vars

\* the two implementations of the update rules, side by side
NextAgree ==
    \E code \in AgreeCodePool, section \in SectionSet, value \in ValuePool :
        UpdateBothWays(code, section, value) /\ UNCHANGED NotData

SpecAgree == InitData /\ [][NextAgree]_vars

InitCache == LruInit /\ TextIdle /\ CodeIdle /\ DataIdle /\ ThrIdle /\ MgrIdle /\ BatchIdle /\ SuIdle /\ BkIdle /\ CmpIdle /\ TfIdle /\ ExtraIdle

NextCache ==
    \/ \E key \in KeyPool : Get(key) /\ UNCHANGED NotLru
    \/ \E key \in KeyPool, p \in PutPool :
          Put(key, p.value, p.ttl) /\ UNCHANGED NotLru
    \/ \E key \in KeyPool : Invalidate(key) /\ UNCHANGED NotLru
    \/ Clear /\ UNCHANGED NotLru
    \/ Tick /\ UNCHANGED NotLru

SpecCache == InitCache /\ [][NextCache]_vars

InitThreads == LruInit /\ ThrIdle /\ TextIdle /\ CodeIdle /\ DataIdle /\ MgrIdle /\ BatchIdle /\ SuIdle /\ BkIdle /\ CmpIdle /\ TfIdle /\ ExtraIdle

NextThreads ==
    \/ \E t \in Threads, key \in KeyPool : CallGet(t, key) /\ UNCHANGED NotThr
    \/ \E t \in Threads, key \in KeyPool, p \in PutPool :
          CallPut(t, key, p) /\ UNCHANGED NotThr
    \/ \E t \in Threads, key \in KeyPool : CallInvalidate(t, key) /\ UNCHANGED NotThr
    \/ \E t \in Threads : CallClear(t) /\ UNCHANGED NotThr
    \/ \E t \in Threads : GetCheck(t) /\ UNCHANGED NotThr
    \/ \E t \in Threads : UpdRemove(t) /\ UNCHANGED NotThr
    \/ \E t \in Threads : UpdAppend(t) /\ UNCHANGED NotThr
    \/ \E t \in Threads : EntryAccess(t) /\ UNCHANGED NotThr
    \/ \E t \in Threads : RemoveCache(t) /\ UNCHANGED NotThr
    \/ \E t \in Threads : RemoveOrder(t) /\ UNCHANGED NotThr
    \/ \E t \in Threads : PutCheck(t) /\ UNCHANGED NotThr
    \/ \E t \in Threads : PutFull(t) /\ UNCHANGED NotThr
    \/ \E t \in Threads : Evict(t) /\ UNCHANGED NotThr
    \/ \E t \in Threads : PutSet(t) /\ UNCHANGED NotThr
    \/ \E t \in Threads : PutAppend(t) /\ UNCHANGED NotThr
    \/ \E t \in Threads : InvCheck(t) /\ UNCHANGED NotThr
    \/ \E t \in Threads : ClearCache(t) /\ UNCHANGED NotThr
    \/ \E t \in Threads : ClearOrder(t) /\ UNCHANGED NotThr
    \/ \E t \in Threads : Release(t) /\ UNCHANGED NotThr
    \/ TickThreads /\ UNCHANGED NotThr

SpecThreads == InitThreads /\ [][NextThreads]_vars

InitManager == MgrInit /\ TextIdle /\ CodeIdle /\ DataIdle /\ LruIdle /\ ThrIdle /\ BatchIdle /\ SuIdle /\ BkIdle /\ CmpIdle /\ TfIdle /\ ExtraIdle

NextManager ==
    \/ \E t \in MgrThreads : CallProcessFile(t) /\ UNCHANGED NotMgr
    \/ \E t \in MgrThreads, f \in UpdateFuncs : CallSafeUpdate(t, f) /\ UNCHANGED NotMgr
    \/ \E t \in MgrThreads : Acquire(t) /\ UNCHANGED NotMgr
    \/ \E t \in MgrThreads : ProcessFileStep(t) /\ UNCHANGED NotMgr
    \/ \E t \in MgrThreads : SafeUpdateStep(t) /\ UNCHANGED NotMgr
    \/ \E t \in MgrThreads : UpdateFunc(t) /\ UNCHANGED NotMgr
    \/ \E t \in MgrThreads : BodyRaises(t) /\ UNCHANGED NotMgr
    \/ \E t \in MgrThreads : MgrRelease(t) /\ UNCHANGED NotMgr

SpecManager == InitManager /\ [][NextManager]_vars

\* a thread that can take its next statement takes it: the interpreter
\* schedules every runnable thread
Run(t) ==
    /\ \/ Acquire(t)
       \/ ProcessFileStep(t)
       \/ SafeUpdateStep(t)
       \/ UpdateFunc(t)
       \/ MgrRelease(t)
    /\ UNCHANGED NotMgr

SpecManagerFair ==
    InitManager /\ [][NextManager]_vars /\ \A t \in MgrThreads : WF_vars(Run(t))

InitBatch ==
    /\ BatchInit /\ TextIdle /\ CodeIdle /\ DataIdle /\ LruIdle /\ ThrIdle /\ MgrIdle
    /\ SuIdle /\ BkIdle /\ CmpIdle /\ TfIdle
    /\ ExtraIdle

NextBatch ==
    \/ \E updates \in BatchUpdatePool, section \in BatchSectionPool,
          config \in BatchConfigPool :
          SafeBatchUpdate(updates, section, config) /\ UNCHANGED NotBatch
    \/ ProcessChunk /\ UNCHANGED NotBatch
    \/ Return /\ UNCHANGED NotBatch
    \/ BatchTick /\ UNCHANGED NotBatch

SpecBatch == InitBatch /\ [][NextBatch]_vars

InitSectionDelete ==
    /\ DeleteBatchInit /\ TextIdle /\ CodeIdle /\ DataIdle /\ LruIdle /\ ThrIdle /\ MgrIdle
    /\ SuIdle /\ BkIdle /\ CmpIdle /\ TfIdle
    /\ ExtraIdle

NextSectionDelete ==
    \/ \E stock_codes \in DeleteCodeLists, config \in DeleteConfigPool :
          BatchDeleteSections(stock_codes, config) /\ UNCHANGED NotBatch
    \/ ProcessDeleteChunk /\ UNCHANGED NotBatch
    \/ DeleteReturn /\ UNCHANGED NotBatch
    \/ BatchTick /\ UNCHANGED NotBatch

SpecSectionDelete == InitSectionDelete /\ [][NextSectionDelete]_vars

InitTipword ==
    /\ TipwordInit /\ TextIdle /\ CodeIdle /\ DataIdle /\ LruIdle /\ ThrIdle /\ MgrIdle
    /\ SuIdle /\ BkIdle /\ CmpIdle /\ TfIdle
    /\ ExtraIdle

NextTipword ==
    \/ \E tipword_map \in TipwordMapPool, config \in TipwordConfigPool :
          BatchDeleteTipwords(tipword_map, config) /\ UNCHANGED NotBatch
    \/ ProcessTipwordChunk /\ UNCHANGED NotBatch
    \/ TipwordReturn /\ UNCHANGED NotBatch

SpecTipword == InitTipword /\ [][NextTipword]_vars

InitFrame ==
    /\ FrameInit /\ TextIdle /\ CodeIdle /\ DataIdle /\ LruIdle /\ ThrIdle /\ MgrIdle
    /\ SuIdle /\ BkIdle /\ CmpIdle /\ TfIdle
    /\ ExtraIdle

SpecFrame == InitFrame /\ [][NextBatch]_vars

----------------------------------------------------------------------------
(* tdx_mark_manager.py: save_data called again and again on the live file *)

\* the maps passed to save_data: empty, a record, a record GBK cannot encode,
\* an encodable record before one that is not, a blank value
SaveDataPool ==
    { EmptyDict,
      [s \in {TIP} |-> [c \in {F01600613} |-> <<"A">>]],
      [s \in {TIP} |-> [c \in {F01600613} |-> <<"U+1F600">>]],
      [s \in {MARK, TIP} |->
          [c \in {F01600613} |-> IF s = MARK THEN <<"1">> ELSE <<"U+1F600">>]],
      [s \in {TIP} |-> [c \in {F01600613} |-> <<" ">>]] }

SaveInit ==
    /\ live \in LiveInputs
    /\ backups = EmptyDict
    /\ clock = 3
    /\ phase = "idle"
    /\ args = NoArgs
    /\ chunks = <<>>
    /\ result = NewResult(0, 0)
    /\ chunk_log = <<>>
    /\ at_call = Fs(live, backups)
    /\ io = <<>>

\* save_data(d): chunk_log keeps, per call, the map, the files before and
\* after and the bool returned
SaveData(d) ==
    /\ Len(chunk_log) < MaxCalls
    /\ \E o \in save_data(Fs(live, backups), d, clock) :
        /\ live' = o.fs.live
        /\ backups' = o.fs.backups
        /\ chunk_log' = Append(chunk_log,
                               [data |-> d, before |-> Fs(live, backups),
                                after |-> o.fs, ret |-> o.ok, time |-> clock])
    /\ UNCHANGED <<clock, phase, args, chunks, result, at_call, io>>

\* a second passes between two calls
SaveTick ==
    /\ clock < 3 + MaxTime
    /\ clock' = clock + 1
    /\ UNCHANGED <<live, backups, phase, args, chunks, result, chunk_log, at_call, io>>

InitSave ==
    /\ SaveInit /\ TextIdle /\ CodeIdle /\ DataIdle /\ LruIdle /\ ThrIdle /\ MgrIdle
    /\ SuIdle /\ BkIdle /\ CmpIdle /\ TfIdle
    /\ ExtraIdle

NextSave ==
    \/ \E d \in SaveDataPool : SaveData(d) /\ UNCHANGED NotBatch
    \/ SaveTick /\ UNCHANGED NotBatch

SpecSave == InitSave /\ [][NextSave]_vars

InitClearBatch ==
    /\ ClearBatchInit /\ TextIdle /\ CodeIdle /\ DataIdle /\ LruIdle /\ ThrIdle /\ MgrIdle
    /\ SuIdle /\ BkIdle /\ CmpIdle /\ TfIdle
    /\ ExtraIdle

NextClearBatch ==
    \/ \E config \in ClearConfigPool : BatchClearEmpty(config) /\ UNCHANGED NotBatch
    \/ ClearTick /\ UNCHANGED NotBatch

SpecClearBatch == InitClearBatch /\ [][NextClearBatch]_vars

NotSu == <<textVars, codeVars, dataVars, lruVars, thrVars, mgrVars, bkVars, cmpVars, tfVars, extraVars>>

InitSafeUpdate ==
    /\ BatchInit /\ SuIdle /\ TextIdle /\ CodeIdle /\ DataIdle /\ LruIdle /\ ThrIdle
    /\ MgrIdle /\ BkIdle /\ CmpIdle /\ TfIdle
    /\ ExtraIdle

NextSafeUpdate ==
    \/ \E f \in CallablePool : SafeUpdate(f) /\ UNCHANGED NotSu
    \/ SuTick /\ UNCHANGED NotSu

SpecSafeUpdate == InitSafeUpdate /\ [][NextSafeUpdate]_vars

NotBk == <<textVars, codeVars, dataVars, lruVars, thrVars, mgrVars, suVars, cmpVars, tfVars, extraVars>>

InitBackup ==
    /\ BatchInit /\ BkIdle /\ CmpIdle /\ TfIdle /\ SuIdle /\ TextIdle /\ CodeIdle /\ DataIdle /\ LruIdle
    /\ ThrIdle /\ MgrIdle
    /\ ExtraIdle

NextBackup ==
    \/ CreateBackup /\ UNCHANGED NotBk
    \/ WriteLive(Join(TipRecord, "\n")) /\ UNCHANGED NotBk
    \/ RollbackLive /\ UNCHANGED NotBk
    \/ BackupTick /\ UNCHANGED NotBk

SpecBackup == InitBackup /\ [][NextBackup]_vars

InitClear ==
    /\ ClearInit /\ TextIdle /\ CodeIdle /\ LruIdle /\ ThrIdle /\ MgrIdle /\ BatchIdle
    /\ SuIdle /\ BkIdle /\ CmpIdle /\ TfIdle
    /\ ExtraIdle

NextClear ==
    \/ ClearEmptyValues /\ UNCHANGED NotData

SpecClear == InitClear /\ [][NextClear]_vars

InitDelete ==
    /\ ClearInit /\ TextIdle /\ CodeIdle /\ LruIdle /\ ThrIdle /\ MgrIdle /\ BatchIdle
    /\ SuIdle /\ BkIdle /\ CmpIdle /\ TfIdle
    /\ ExtraIdle

NextDelete ==
    \/ \E code \in StockCodePool, section \in DeleteSectionPool :
          DeleteFromSection(code, section) /\ UNCHANGED NotData

SpecDelete == InitDelete /\ [][NextDelete]_vars

InitMarket ==
    /\ MarketInit /\ TextIdle /\ CodeIdle /\ LruIdle /\ ThrIdle /\ MgrIdle /\ BatchIdle
    /\ SuIdle /\ BkIdle /\ CmpIdle /\ TfIdle
    /\ ExtraIdle

NextMarket ==
    \/ \E market_code \in MarketCodes \cup {<<"0", "3">>, <<"0">>} :
          GetStocksByMarket(market_code) /\ UNCHANGED NotData

SpecMarket == InitMarket /\ [][NextMarket]_vars

NotCmp ==
    <<textVars, codeVars, dataVars, lruVars, thrVars, mgrVars, batchVars, suVars, bkVars,
      tfVars, extraVars>>

InitCompare ==
    /\ CmpInit /\ TextIdle /\ CodeIdle /\ DataIdle /\ LruIdle /\ ThrIdle /\ MgrIdle
    /\ BatchIdle /\ SuIdle /\ BkIdle /\ TfIdle
    /\ ExtraIdle

NextCompare ==
    \/ CompareAWithB /\ UNCHANGED NotCmp
    \/ CompareBWithA /\ UNCHANGED NotCmp

SpecCompare == InitCompare /\ [][NextCompare]_vars

NotTf == <<textVars, codeVars, dataVars, lruVars, thrVars, mgrVars, suVars, bkVars, cmpVars, extraVars>>

InitSelfTest ==
    /\ TfInit /\ TextIdle /\ CodeIdle /\ DataIdle /\ LruIdle /\ ThrIdle /\ MgrIdle
    /\ SuIdle /\ BkIdle /\ CmpIdle
    /\ ExtraIdle

NextSelfTest ==
    \/ TestFunctionality /\ UNCHANGED NotTf
    \/ \E f \in TestFilePool : ReplaceLive(f) /\ UNCHANGED NotTf
    \/ TfTick /\ UNCHANGED NotTf

SpecSelfTest == InitSelfTest /\ [][NextSelfTest]_vars

\* every group but those of extraVars
NotExtra ==
    <<textVars, codeVars, dataVars, lruVars, thrVars, mgrVars, batchVars, suVars, bkVars,
      cmpVars, tfVars>>

InitValidate ==
    /\ ValInit /\ TextIdle /\ CodeIdle /\ DataIdle /\ LruIdle /\ ThrIdle /\ MgrIdle
    /\ BatchIdle /\ SuIdle /\ BkIdle /\ CmpIdle /\ TfIdle
    /\ QueryIdle /\ HistIdle

NextValidate ==
    \/ ValidateStockCode /\ UNCHANGED <<NotExtra, queryVars, histVars>>

SpecValidate == InitValidate /\ [][NextValidate]_vars

NotQuery ==
    <<textVars, codeVars, dataVars, lruVars, thrVars, mgrVars, suVars, bkVars, cmpVars,
      tfVars, valVars, histVars>>

InitQuery ==
    /\ QueryInit /\ TextIdle /\ CodeIdle /\ DataIdle /\ LruIdle /\ ThrIdle /\ MgrIdle
    /\ SuIdle /\ BkIdle /\ CmpIdle /\ TfIdle
    /\ ValIdle /\ HistIdle

NextQuery ==
    \/ \E stock_codes \in QueryPool : SafeBatchQuery(stock_codes) /\ UNCHANGED NotQuery
    \/ \E d \in QuerySavePool : QuerySaveData(d) /\ UNCHANGED NotQuery

SpecQuery == InitQuery /\ [][NextQuery]_vars

InitHistory ==
    /\ HistIdle /\ TextIdle /\ CodeIdle /\ DataIdle /\ LruIdle /\ ThrIdle /\ MgrIdle
    /\ BatchIdle /\ SuIdle /\ BkIdle /\ CmpIdle /\ TfIdle
    /\ ValIdle /\ QueryIdle

NextHistory ==
    \/ AddToHistory /\ UNCHANGED <<NotExtra, valVars, queryVars>>
    \/ \E limit \in TrailLimitPool : AuditTrail(limit) /\ UNCHANGED <<NotExtra, valVars, queryVars>>

SpecHistory == InitHistory /\ [][NextHistory]_vars

----------------------------------------------------------------------------
(* C3 *)

\* the (code, value) records of one section of a map; none when it is absent
Entries(d, section) ==
    IF section \in DOMAIN d
    THEN { <<k, d[section][k]>> : k \in DOMAIN d[section] }
    ELSE {}

NonBlank(es) == { e \in es : Strip(e[2]) # <<>> }

\* C3: a map returned by parse_content, written by save_data and parsed
\* again, gives per section the same set of records as the map with its
\* blank-valued records removed, and no other section.
C3_RoundTrip ==
    tpc = "reparsed" =>
        /\ DOMAIN reparsed \subseteq SectionSet
        /\ \A s \in SectionSet : Entries(reparsed, s) = NonBlank(Entries(parsed, s))

C3_Witness ==
    /\ tpc = "reparsed"
    /\ \E s \in SectionSet :
        /\ Entries(reparsed, s) # {}
        /\ Entries(parsed, s) # NonBlank(Entries(parsed, s))

----------------------------------------------------------------------------
(* C4 *)

IsSixDigit(code) == Len(code) = 6 /\ \A i \in 1..6 : code[i] \in AsciiDigits

IsEightDigit(code) == Len(code) = 8 /\ \A i \in 1..8 : code[i] \in AsciiDigits

\* C4 as stated: convert_to_8digit returns an 8-digit code for every
\* 6-digit numeric string, and converting the result again returns it.
C4_TotalIdempotent ==
    /\ (cpc = "once" /\ IsSixDigit(stock_code)) => (once.ok /\ IsEightDigit(once.value))
    /\ (cpc = "twice" /\ IsSixDigit(stock_code)) => twice = once

\* C4 amended: for a 6-digit numeric string whose leading digit is one of
\* 0, 3, 4, 6, 8 the result is the 8-digit code (market prefix then the
\* input) and converting it again returns it; for every other leading digit
\* convert_to_8digit raises.
C4_Amended ==
    /\ (cpc = "once" /\ IsSixDigit(stock_code)) =>
          IF stock_code[1] \in {"0", "3", "4", "6", "8"}
          THEN /\ once.ok
               /\ IsEightDigit(once.value)
               /\ SubSeq(once.value, 3, 8) = stock_code
               /\ SubSeq(once.value, 1, 2) \in {<<"0", "0">>, <<"0", "1">>, <<"0", "2">>}
          ELSE ~once.ok
    /\ (cpc = "twice" /\ IsSixDigit(stock_code)) => twice = once

C4_Witness ==
    /\ cpc = "twice"
    /\ IsSixDigit(stock_code)
    /\ stock_code[1] = "4"
    /\ twice.ok

----------------------------------------------------------------------------
(* C5 *)

\* C5: for a code that had no TIPWORD value, after any sequence of non-empty
\* values applied to it as TIPWORD updates (by update_section_value or by
\* update_tipword) the stored value is those values, in application order
\* and with repeats, joined by "/".
C5_MergeKeepsAll ==
    \A c \in DOMAIN applied :
        (applied[c].tracked /\ applied[c].vals # <<>>) =>
            /\ TIPWORD \in DOMAIN data
            /\ c \in DOMAIN data[TIPWORD]
            /\ data[TIPWORD][c] = Join(applied[c].vals, "/")

C5_Witness ==
    /\ F01600613 \in DOMAIN applied
    /\ applied[F01600613].tracked
    /\ applied[F01600613].vals = << <<"A">>, <<"B">>, <<"B">> >>
    /\ op.name = "update_tipword"

----------------------------------------------------------------------------
(* C6 *)

\* a fragment occurs more than once between the "/" separators of a value
HasRepeatedFragment(value) ==
    LET parts == Split(value, "/")
    IN \E i, j \in 1..Len(parts) : i # j /\ parts[i] = parts[j]

RepeatedCodes(d) ==
    IF TIPWORD \in DOMAIN d
    THEN { c \in DOMAIN d[TIPWORD] : HasRepeatedFragment(d[TIPWORD][c]) }
    ELSE {}

\* C6: after merge_duplicate_tipwords, every code whose TIPWORD value had a
\* repeated fragment holds its fragments deduplicated by first occurrence
\* and rejoined with "/", and is counted in the returned number.
C6_MergeDeduplicates ==
    op.name = "merge_duplicate_tipwords" =>
        /\ \A c \in RepeatedCodes(data_before) :
              data[TIPWORD][c] =
                  Join(UniqueParts(Split(data_before[TIPWORD][c], "/"), {}), "/")
        /\ op.count >= Cardinality(RepeatedCodes(data_before))

----------------------------------------------------------------------------
(* C7 *)

\* C7: a put of a key that is not cached, into a cache holding max_size
\* entries, evicts exactly one entry, the one whose last put or successful
\* get is the oldest; after a get that hits or a put, the key is the most
\* recently used one.
C7_EvictsLeastRecent ==
    /\ (call.name = "put" /\ call.key \notin DOMAIN before.cache
           /\ Cardinality(DOMAIN before.cache) = max_size) =>
          /\ before.recency # <<>>
          /\ DOMAIN cache = (DOMAIN before.cache \ {before.recency[1]}) \cup {call.key}
    /\ (call.name = "put" \/ (call.name = "get" /\ call.hit)) =>
          /\ access_order # <<>>
          /\ access_order[Len(access_order)] = call.key
          /\ Cardinality({i \in 1..Len(access_order) : access_order[i] = call.key}) = 1

\* B evicted although A was put first, because A was read in between
C7_Witness ==
    /\ call.name = "put"
    /\ max_size = 2
    /\ call.key = "C"
    /\ DOMAIN before.cache = {"A", "B"}
    /\ before.recency = <<"B", "A">>
    /\ DOMAIN cache = {"A", "C"}
    /\ cache["A"].access_count = 1

----------------------------------------------------------------------------
(* C8 *)

\* C8: get returns the stored value exactly when the key is cached and the
\* entry's age is at most its ttl; when the age exceeds the ttl, get returns
\* no value and removes the entry, so that the size drops by one and the key
\* is no longer cached.
C8_GetHonoursTtl ==
    call.name = "get" =>
        LET present == call.key \in DOMAIN before.cache
            fresh == present /\
                     (call.at - before.cache[call.key].timestamp) <= before.cache[call.key].ttl
        IN /\ call.hit <=> fresh
           /\ call.hit => call.value = before.cache[call.key].data
           /\ (present /\ ~fresh) =>
                 /\ call.key \notin DOMAIN cache
                 /\ Cardinality(DOMAIN cache) = Cardinality(DOMAIN before.cache) - 1
           /\ (~present \/ fresh) =>
                 Cardinality(DOMAIN cache) = Cardinality(DOMAIN before.cache)

\* an entry read at an age equal to its ttl
C8_Witness ==
    /\ call.name = "get"
    /\ call.hit
    /\ call.at - cache[call.key].timestamp = 1
    /\ cache[call.key].ttl = 1

C8_WitnessExpired ==
    /\ call.name = "get"
    /\ ~call.hit
    /\ call.key \in DOMAIN before.cache
    /\ Cardinality(DOMAIN cache) = 1

----------------------------------------------------------------------------
(* C9 *)

OrderKeys == { access_order[i] : i \in 1..Len(access_order) }

\* C9: with threads calling get, put, invalidate and clear on one cache of
\* max_size >= 1, at most one thread is inside an operation at a time, and
\* whenever none is, the keys of the entry map are the keys of the recency
\* list, the list has no duplicates, and there are at most max_size entries.
C9_ThreadSafe ==
    max_size >= 1 =>
        /\ Cardinality({ t \in Threads : pc[t] # "idle" }) <= 1
        /\ (\A t \in Threads : pc[t] = "idle") =>
              /\ DOMAIN cache = OrderKeys
              /\ Cardinality(OrderKeys) = Len(access_order)
              /\ Cardinality(DOMAIN cache) <= max_size

\* one thread is in the middle of a put that evicted, the map and the list
\* disagree, and the other thread has to wait
C9_Witness ==
    /\ pc["t2"] = "put_append"
    /\ pc["t1"] = "idle"
    /\ lock_owner = "t2"
    /\ Cardinality(DOMAIN cache) = 2
    /\ max_size = 2
    /\ DOMAIN cache # OrderKeys
    /\ ncalls = 3

----------------------------------------------------------------------------
(* C10 *)

BodyPositions == PositionsOf(ProcessFileBody) \cup PositionsOf(SafeUpdateBody)

InBody(t) == \E i \in 1..Len(stack[t]) : stack[t][i] \in BodyPositions

\* C10: under any interleaving of threads, at most one thread at a time is
\* inside the body of process_file or safe_update of one manager.
C10_MutuallyExclusive == Cardinality({ t \in MgrThreads : InBody(t) }) <= 1

\* one thread is in the middle of process_file while another has called
\* safe_update and a third process_file, and both are kept at the with statement
C10_Witness ==
    /\ stack["t1"] = <<"pf_merge">>
    /\ stack["t2"] = <<"su_with">>
    /\ stack["t3"] = <<"pf_with">>
    /\ mgr_lock = "t1"

----------------------------------------------------------------------------
(* C1, C2 *)

Strict == args.config.success_threshold = 100 /\ args.config.auto_rollback

Processed == 1..Len(chunk_log)

\* a chunk with a failed item: the file is as it was backed up, the chunk is
\* reported failed and rolled back
RolledBack(i) ==
    /\ chunk_log[i].after.content = chunk_log[i].before.content
    /\ ~result.chunk_results[i].success
    /\ result.chunk_results[i].rolled_back

\* a chunk whose items all succeeded: the file holds the updated data, the
\* chunk is reported successful and not rolled back
Persisted(i) ==
    /\ chunk_log[i].after.content = chunk_log[i].to_save
    /\ result.chunk_results[i].success
    /\ ~result.chunk_results[i].rolled_back

FailedChunksRolledBack ==
    \A i \in Processed :
        result.chunk_results[i].failed_items # <<>> => RolledBack(i)

SucceededChunksPersisted ==
    \A i \in Processed :
        (result.chunk_results[i].failed_items = <<>>
         /\ result.chunk_results[i].successful_items # <<>>) => Persisted(i)

\* C1: with success_threshold = 100 and auto_rollback, every processed chunk
\* with at least one failed item leaves the live file identical to the backup
\* taken at its start and reports success = false, rolled_back = true; every
\* chunk whose items all succeeded has its updates in the live file and
\* reports success = true, rolled_back = false.
C1_RollbackOrPersist ==
    Strict => FailedChunksRolledBack /\ SucceededChunksPersisted

\* the call's inputs are invalid in one of the three ways the claim lists
InvalidCall ==
    \/ args.updates = <<>>
    \/ Upper(Strip(args.section)) \notin SectionSet
    \/ \E i \in 1..Len(args.updates) :
          ~validate_stock_code(args.updates[i].code, TRUE).ok

\* C2: a call whose update map is empty, whose section is not one of the five
\* sections, or one of whose keys fails validate_stock_code(allow_short=true)
\* raises, and at that point no backup was created and the live file was
\* neither read nor written: file and backup directory are as at the call.
C2_RaisesBeforeMutation ==
    (phase # "idle" /\ InvalidCall) =>
        /\ phase = "raised"
        /\ io = <<>>
        /\ chunk_log = <<>>
        /\ live = at_call.live
        /\ backups = at_call.backups

\* a two-item call whose second key has five digits raised, on an existing
\* file with a full backup directory
C2_Witness ==
    /\ phase = "raised"
    /\ Len(args.updates) = 2
    /\ validate_stock_code(args.updates[1].code, TRUE).ok
    /\ ~validate_stock_code(args.updates[2].code, TRUE).ok
    /\ validate_section(args.section).ok
    /\ live.exists
    /\ Cardinality(DOMAIN backups) = max_backups

----------------------------------------------------------------------------
(* C11 *)

\* the update callable of thread t has called process_file or safe_update of
\* the same manager from inside safe_update
Nested(t) == Len(stack[t]) = 2

\* C11: the manager's lock is reentrant: a thread inside safe_update whose
\* update callable calls process_file or safe_update on the same manager gets
\* the lock again, and its outer call eventually returns.
C11_ReentrantLock == \A t \in MgrThreads : Nested(t) ~> (stack[t] = <<>>)

----------------------------------------------------------------------------
(* C12 *)

Before(ops, first, second) ==
    \E i, j \in 1..Len(ops) : i < j /\ ops[i] = first /\ ops[j] = second

\* the call met a fault: no file to back up, the callable raised, or the
\* callable returned True after deleting the file it should have updated
SuFaulted ==
    \/ ~at_call.live.exists
    \/ su_func.returns = "raises"
    \/ su_func.returns = "True" /\ su_func.effect = "delete"

\* when the callable ran, create_backup had been called before it and the
\* backup of the file as it was stood in the backup directory
BackupBeforeCallable ==
    su_trace.ran => Before(io, "backup", "call") /\ su_trace.backup_at_run

\* invalid codes reported after a True: the file is the backup again
RolledBackOnInvalid ==
    (su_func.returns = "True" /\ su_trace.invalid_reported) =>
        /\ live.content = at_call.live.content
        /\ ~su_result.success
        /\ su_result.rolled_back = <<TRUE>>

\* no fault and no invalid codes: success with the backup path and the hash
\* of the data the file held before the update
SucceedsOtherwise ==
    (~SuFaulted /\ ~su_trace.invalid_reported) =>
        /\ su_result.success
        /\ su_result.backup_path = <<clock>>
        /\ su_result.original_hash
             = <<calculate_data_hash(parse_content(at_call.live.content))>>

\* a fault gives success = false with an error; nothing is raised
FaultsAreReported ==
    SuFaulted => ~su_result.success /\ su_result.error # <<>> /\ phase = "returned"

\* C12: safe_update creates a backup before the callable runs; a True result
\* whose reloaded file has invalid codes is rolled back to that backup and
\* reported as success = false, rolled_back = true; without invalid codes the
\* result is success = true with the backup path and the pre-update hash; any
\* fault gives success = false with an error and is not propagated.
C12_SafeUpdateOutcomes ==
    phase = "returned" =>
        /\ BackupBeforeCallable
        /\ RolledBackOnInvalid
        /\ SucceedsOtherwise
        /\ FaultsAreReported

----------------------------------------------------------------------------
(* C13 *)

\* the i-th consecutive slice of chunk_size items of the input
Slice(updates, chunk_size, i) ==
    SubSeq(updates, (i - 1) * chunk_size + 1,
           IF i * chunk_size < Len(updates) THEN i * chunk_size ELSE Len(updates))

NumSlices(updates, chunk_size) == (Len(updates) + chunk_size - 1) \div chunk_size

FailedChunks == { i \in 1..Len(result.chunk_results) : ~result.chunk_results[i].success }

\* the file operations of all processed chunks, in order
RECURSIVE AllOps(_)
AllOps(log) == IF log = <<>> THEN <<>> ELSE Head(log).ops \o AllOps(Tail(log))

\* C13: with continue_on_chunk_failure = false the loop stops at the first
\* failed chunk: only the last processed chunk can have failed, no file
\* operation follows it and the file stays as that chunk left it; with
\* continue_on_chunk_failure = true every chunk is processed, in input order,
\* whatever the outcome of the earlier ones.
C13_StopOrContinue ==
    /\ Len(chunk_log) = Len(result.chunk_results)
    /\ \A i \in Processed :
          chunk_log[i].chunk_data
            = Slice(args.updates, args.config.chunk_size, i)
    /\ (phase \in {"running", "returned"} /\ ~args.config.continue_on_chunk_failure) =>
          /\ FailedChunks \subseteq {Len(result.chunk_results)}
          /\ FailedChunks # {} => chunks = <<>>
    /\ phase = "returned" =>
          /\ io = AllOps(chunk_log)
          /\ chunk_log # <<>> => live = chunk_log[Len(chunk_log)].after
          /\ (args.config.continue_on_chunk_failure \/ FailedChunks = {}) =>
                Len(result.chunk_results)
                  = NumSlices(args.updates, args.config.chunk_size)

\* a call of two chunks stopped after its first chunk failed
C13_Witness ==
    /\ phase = "returned"
    /\ ~args.config.continue_on_chunk_failure
    /\ result.total_chunks = 2
    /\ Len(result.chunk_results) = 1
    /\ ~result.chunk_results[1].success
    /\ io # <<>>

\* a call of two chunks went on after its first chunk failed
C13_WitnessContinue ==
    /\ phase = "returned"
    /\ args.config.continue_on_chunk_failure
    /\ Len(result.chunk_results) = 2
    /\ ~result.chunk_results[1].success
    /\ result.chunk_results[2].success

----------------------------------------------------------------------------
(* C14 *)

\* chunk i wrote its data to the live file
Saved(i) ==
    /\ \E j \in 1..Len(chunk_log[i].ops) : chunk_log[i].ops[j] = "write"
    /\ chunk_log[i].after.content = chunk_log[i].to_save

\* the number of items that succeeded inside the chunks 1..n that were saved
RECURSIVE SavedItems(_)
SavedItems(n) ==
    IF n = 0 THEN 0
    ELSE SavedItems(n - 1)
         + (IF Saved(n) THEN Len(result.chunk_results[n].successful_items) ELSE 0)

\* C14: after safe_batch_update returns, overall_success_rate is 100 times the
\* number of items that succeeded inside a chunk that was saved to the file,
\* divided by the number of input items, also when processing stopped early.
C14_OverallRate ==
    phase = "returned" =>
        result.overall_success_rate.num * Len(args.updates)
          = 100 * SavedItems(Len(chunk_log)) * result.overall_success_rate.den

----------------------------------------------------------------------------
(* C15 *)

\* the directory of the last create_backup after the copy, before the pruning
Copied ==
    DictPut(at_call.backups, created.path[1],
            [content |-> at_call.live.content, mtime |-> at_call.live.mtime])

\* the files the pruning of the last create_backup deleted
Pruned == DOMAIN Copied \ DOMAIN backups

----------------------------------------------------------------------------
(* C16 *)

\* the lines of the text save_data generated
WrittenLines == Split(written, "\n")

\* the section whose header line i is, as its place in supported_sections; 0
\* when line i is not a header
HeaderIndex(i) ==
    IF \E k \in 1..Len(supported_sections) : WrittenLines[i] = SaveHeader(supported_sections[k])
    THEN CHOOSE k \in 1..Len(supported_sections) : WrittenLines[i] = SaveHeader(supported_sections[k])
    ELSE 0

\* line i is a code=value line
IsRecordLine(i) == HeaderIndex(i) = 0 /\ WrittenLines[i] # <<>>

LineCode(i) == SubSeq(WrittenLines[i], 1, IndexOf(WrittenLines[i], "=") - 1)

LineValue(i) ==
    SubSeq(WrittenLines[i], IndexOf(WrittenLines[i], "=") + 1, Len(WrittenLines[i]))

\* the section has at least one value that is not empty or whitespace-only
HasNonBlankValue(section) ==
    /\ section \in DOMAIN parsed
    /\ \E code \in DOMAIN parsed[section] : Strip(parsed[section][code]) # <<>>

\* a header is written exactly for the sections with a non-blank value
HeaderIffNonBlank ==
    \A k \in 1..Len(supported_sections) :
        (\E i \in 1..Len(WrittenLines) : HeaderIndex(i) = k)
            <=> HasNonBlankValue(supported_sections[k])

\* headers appear in the order of supported_sections, each at most once
SectionsInOrder ==
    \A i, j \in 1..Len(WrittenLines) :
        (i < j /\ HeaderIndex(i) > 0 /\ HeaderIndex(j) > 0) => HeaderIndex(i) < HeaderIndex(j)

\* inside a section the codes ascend
CodesAscending ==
    \A i \in 1..(Len(WrittenLines) - 1) :
        (IsRecordLine(i) /\ IsRecordLine(i + 1)) => StrLess(LineCode(i), LineCode(i + 1))

\* no code=value line has a blank value
NoBlankValueLine ==
    \A i \in 1..Len(WrittenLines) :
        IsRecordLine(i) => (IndexOf(WrittenLines[i], "=") > 0 /\ Strip(LineValue(i)) # <<>>)

\* C16: the text save_data writes has a [SECTION] header exactly for the
\* sections with at least one non-blank value, in the order MARK, TIP, TIPWORD,
\* TIPCOLOR, TIME, with the code=value lines of a section ascending by code and
\* no line whose value is blank.
C16_SaveLayout ==
    tpc \in {"written", "reparsed"} =>
        /\ HeaderIffNonBlank
        /\ SectionsInOrder
        /\ CodesAscending
        /\ NoBlankValueLine

\* the parts of C16 other than the header rule
C16_OrderAndValues ==
    tpc \in {"written", "reparsed"} =>
        /\ SectionsInOrder
        /\ CodesAscending
        /\ NoBlankValueLine

\* a header is never missing for a section with a non-blank value
C16_HeaderWhenNonBlank ==
    tpc \in {"written", "reparsed"} =>
        \A k \in 1..Len(supported_sections) :
            HasNonBlankValue(supported_sections[k])
                => \E i \in 1..Len(WrittenLines) : HeaderIndex(i) = k

----------------------------------------------------------------------------
(* C17 *)

\* the lines of the input text, stripped as the loop strips them
InputLines == [i \in 1..Len(Split(content, "\n")) |-> Strip(Split(content, "\n")[i])]

\* line i is a [..] header line
IsHeaderLine(i) ==
    /\ InputLines[i] # <<>>
    /\ Head(InputLines[i]) = "["
    /\ InputLines[i][Len(InputLines[i])] = "]"

\* the name between the brackets of header line i
HeaderName(i) == SubSeq(InputLines[i], 2, Len(InputLines[i]) - 1)

\* the nearest header line before line i; 0 when there is none
NearestHeader(i) ==
    IF \E j \in 1..(i - 1) : IsHeaderLine(j)
    THEN CHOOSE j \in 1..(i - 1) :
            IsHeaderLine(j) /\ \A m \in (j + 1)..(i - 1) : ~IsHeaderLine(m)
    ELSE 0

\* line i is a key=value line
IsPairLine(i) == ~IsHeaderLine(i) /\ IndexOf(InputLines[i], "=") > 0

\* the text before the first '=' and the text after it, stripped
PairKey(i) == Strip(SubSeq(InputLines[i], 1, IndexOf(InputLines[i], "=") - 1))

PairValue(i) ==
    Strip(SubSeq(InputLines[i], IndexOf(InputLines[i], "=") + 1, Len(InputLines[i])))

\* every stored pair comes from a key=value line whose nearest preceding
\* header is the known section it is stored under, split at its first '='
StoredFromKnownSection ==
    \A s \in DOMAIN parsed : \A k \in DOMAIN parsed[s] :
        \E i \in 1..Len(InputLines) :
            /\ IsPairLine(i)
            /\ NearestHeader(i) > 0
            /\ HeaderName(NearestHeader(i)) = s
            /\ PairKey(i) = k
            /\ PairValue(i) = parsed[s][k]

\* C17: the map parse_content returns has only the five known sections and
\* only keys of exactly 8 ASCII digits; a pair is stored only from a line
\* whose nearest preceding header is a known section, split at its first '='.
C17_ParseResult ==
    tpc # "input" =>
        /\ DOMAIN parsed \subseteq SectionSet
        /\ \A s \in DOMAIN parsed : \A k \in DOMAIN parsed[s] : IsEightDigit(k)
        /\ StoredFromKnownSection

\* the parts of C17 other than the ASCII rule, with the keys as the code
\* tests them: 8 characters that str.isdigit() accepts
C17_SectionsAndLines ==
    tpc # "input" =>
        /\ DOMAIN parsed \subseteq SectionSet
        /\ \A s \in DOMAIN parsed : \A k \in DOMAIN parsed[s] : Len(k) = 8 /\ IsDigit(k)
        /\ StoredFromKnownSection

----------------------------------------------------------------------------
(* C18 *)

\* the entries of a map whose value is empty or whitespace-only
BlankEntries(d) ==
    { <<s, k>> \in UNION { {s} \X DOMAIN d[s] : s \in DOMAIN d } : Strip(d[s][k]) = <<>> }

AllEntries(d) == UNION { {s} \X DOMAIN d[s] : s \in DOMAIN d }

\* C18: clear_empty_values returns the number of entries, over all sections,
\* whose value was empty or whitespace-only before the call; afterwards no
\* such entry remains and every entry with a non-blank value is unchanged.
C18_ClearEmptyValues ==
    op.name = "clear_empty_values" =>
        /\ op.count = Cardinality(BlankEntries(data_before))
        /\ BlankEntries(data) = {}
        /\ DOMAIN data = DOMAIN data_before
        /\ AllEntries(data) = AllEntries(data_before) \ BlankEntries(data_before)
        /\ \A e \in AllEntries(data) : data[e[1]][e[2]] = data_before[e[1]][e[2]]

\* three blank values, one of them whitespace-only, spread across two
\* sections, next to a value that stays
C18_Witness ==
    /\ op.name = "clear_empty_values"
    /\ op.count = 3
    /\ \A s \in {TIP, TIPWORD} : \E e \in BlankEntries(data_before) : e[1] = s
    /\ \E e \in BlankEntries(data_before) : data_before[e[1]][e[2]] # <<>>
    /\ AllEntries(data) # {}

----------------------------------------------------------------------------
(* C19 *)

\* a different_values list with the two values of every triple swapped
Swapped(triples) == { <<t[1], t[3], t[2]>> : t \in triples }

\* C19: compare_files is symmetric: A against B and B against A report the
\* same sections, the same common_count per section, only_in_file1 and
\* only_in_file2 swapped, and different_values with the two values swapped.
C19_Symmetric ==
    (a_vs_b.called /\ b_vs_a.called) =>
        /\ a_vs_b.ok = b_vs_a.ok
        /\ DOMAIN a_vs_b.differences = DOMAIN b_vs_a.differences
        /\ \A s \in DOMAIN a_vs_b.differences :
            LET ab == a_vs_b.differences[s]
                ba == b_vs_a.differences[s]
            IN /\ ab.common_count = ba.common_count
               /\ ab.only_in_file1 = ba.only_in_file2
               /\ ab.only_in_file2 = ba.only_in_file1
               /\ ab.different_values = Swapped(ba.different_values)

\* both comparisons were made, of files with a common record, a record in one
\* file only, a record whose value differs and one whose value is empty
C19_Witness ==
    /\ a_vs_b.called /\ b_vs_a.called /\ a_vs_b.ok
    /\ \E s \in DOMAIN a_vs_b.differences : a_vs_b.differences[s].common_count > 0
    /\ \E s \in DOMAIN a_vs_b.differences : a_vs_b.differences[s].only_in_file1 # {}
    /\ \E s \in DOMAIN a_vs_b.differences :
        \E t \in a_vs_b.differences[s].different_values : t[2] = << <<>> >>

----------------------------------------------------------------------------
(* C20 *)

\* the place of a check in the order of the checks
TestIndex(name) == CHOOSE k \in 1..Len(TestNames) : TestNames[k] = name

\* the checks are attempted in the order existence, read, parse, validation,
\* backup, none skipped
AttemptedInOrder ==
    /\ Len(attempted) <= Len(TestNames)
    /\ \A k \in 1..Len(attempted) : attempted[k] = TestNames[k]

\* the first of existence, read, parse that is false is the last check
\* attempted, and every later check is false
StopsAtFirstFailure ==
    \A name \in {"existence", "read", "parse"} :
        ~test_results[name] =>
            /\ Len(attempted) <= TestIndex(name)
            /\ \A k \in (TestIndex(name) + 1)..Len(TestNames) : ~test_results[TestNames[k]]

\* a failed validation is followed by the backup check
ValidationDoesNotStop ==
    (Len(attempted) >= TestIndex("validation") /\ ~test_results.validation)
        => Len(attempted) = TestIndex("backup")

\* C20: test_functionality makes its checks in the order existence, read,
\* parse, validation, backup; when one of the first three is false in the
\* result no later check was attempted and all later checks are false; a
\* failed validation does not keep the backup check from running.
C20_SelfTestOrder ==
    test_results.called =>
        /\ AttemptedInOrder
        /\ StopsAtFirstFailure
        /\ ValidationDoesNotStop

\* the parts of C20 that do not depend on what counts as a failure, and the
\* early return as the code makes it: after a missing file or a read that raised
C20_OrderAndReturns ==
    test_results.called =>
        /\ AttemptedInOrder
        /\ ValidationDoesNotStop
        /\ ~test_results.existence => (attempted = <<"existence">> /\ ~test_results.backup)
        /\ Len(attempted) < Len(TestNames) =>
              \A k \in Len(attempted)..Len(TestNames) : ~test_results[TestNames[k]]

----------------------------------------------------------------------------
(* C21 *)

\* the code has the accepted shape: 8 characters with a known market prefix,
\* or 6 characters with allow_short
AcceptedShape(code) ==
    \/ Len(code) = 8 /\ SubSeq(code, 1, 2) \in {<<"0", "0">>, <<"0", "1">>, <<"0", "2">>}
    \/ Len(code) = 6 /\ allow_short_arg

OnlyAsciiDigits(code) == \A i \in 1..Len(code) : code[i] \in AsciiDigits

\* C21: validate_stock_code returns the code exactly when it consists only
\* of digits and has 8 digits with a market prefix in {00, 01, 02} or 6 digits
\* with allow_short; it raises for every other input.
C21_ValidateExact ==
    validated.called =>
        IF OnlyAsciiDigits(code_arg) /\ AcceptedShape(code_arg)
        THEN validated.ok /\ validated.value = code_arg
        ELSE ~validated.ok

\* the same for the inputs made of the digits 0-9 only, and for the other
\* inputs what the code does: it judges the input with surrounding
\* whitespace removed, and by str.isdigit()
C21_ValidateStripped ==
    validated.called =>
        /\ OnlyAsciiDigits(code_arg) =>
              IF AcceptedShape(code_arg)
              THEN validated.ok /\ validated.value = code_arg
              ELSE ~validated.ok
        /\ validated.ok =>
              /\ validated.value = Strip(code_arg)
              /\ IsDigit(validated.value)
              /\ AcceptedShape(validated.value)

----------------------------------------------------------------------------
(* C22 *)

\* the call removed the entry of the code it names from the section it
\* names, when there was one, and nothing else
RemovedFromOneSection ==
    LET target == TargetOf(op.code) IN
    /\ DOMAIN data = DOMAIN data_before
    /\ \A s \in DOMAIN data :
        /\ DOMAIN data[s] =
              IF s = op.section THEN DOMAIN data_before[s] \ {target}
              ELSE DOMAIN data_before[s]
        /\ \A k \in DOMAIN data[s] : data[s][k] = data_before[s][k]
    /\ op.ok <=> (op.section \in DOMAIN data_before
                  /\ target \in DOMAIN data_before[op.section])

\* C22: delete_from_section raises a format error to its caller when the
\* section is not one of the five supported sections, and otherwise removes the
\* code's entry from that section only, leaving every other section unchanged.
C22_DeleteFromSection ==
    op.name = "delete_from_section" =>
        IF op.section \notin SectionSet THEN op.raised
        ELSE ~op.raised /\ RemovedFromOneSection

\* what the call does for an unsupported section: it returns False and
\* leaves the map as it was; for a supported section as C22 says
C22_ReturnsFalse ==
    op.name = "delete_from_section" =>
        /\ ~op.raised
        /\ IF op.section \notin SectionSet THEN ~op.ok /\ data = data_before
           ELSE RemovedFromOneSection

----------------------------------------------------------------------------
(* C23 *)

\* the full codes of the map that start with the prefix
StoredWithPrefix(p) ==
    { c \in UNION { DOMAIN data[s] : s \in DOMAIN data } : SubSeq(c, 1, 2) = p }

\* the record returned for a stored full code is the record of that code
RecordOf(c) ==
    /\ ~op.value[c].empty
    /\ op.value[c].full_code = c
    /\ \A s \in SectionSet :
          op.value[c].values[s] =
              IF s \in DOMAIN data /\ c \in DOMAIN data[s] THEN data[s][c] ELSE <<>>

\* C23: for a market prefix in {00, 01, 02}, get_stocks_by_market returns
\* one record for each full code of the map that starts with the prefix, and
\* each record has that stored full code as its full_code and the values
\* stored for it in the five sections.
C23_StocksByMarket ==
    (op.name = "get_stocks_by_market" /\ op.code \in MarketCodes) =>
        /\ DOMAIN op.value = StoredWithPrefix(op.code)
        /\ \A c \in DOMAIN op.value : RecordOf(c)

\* the same for the stored codes whose prefix is the one convert_to_8digit
\* gives their last six digits; an invalid prefix gives the empty list
C23_WhenPrefixFollowsRule ==
    op.name = "get_stocks_by_market" =>
        IF op.code \in MarketCodes
        THEN /\ DOMAIN op.value = StoredWithPrefix(op.code)
             /\ \A c \in DOMAIN op.value :
                   TargetOf(SubSeq(c, 3, 8)) = c => RecordOf(c)
        ELSE op.value = EmptyDict

----------------------------------------------------------------------------
(* C24 *)

\* the listed entry is a numeric string of 6 or 8 digits
IsListedCode(entry) == IsSixDigit(entry) \/ IsEightDigit(entry)

\* the full codes the manager has read that a listed entry names
NamedBy(entry) ==
    { full \in DOMAIN cached_all_data.value :
        \/ IsEightDigit(entry) /\ full = entry
        \/ IsSixDigit(entry) /\ SubSeq(full, 3, 8) = entry }

\* the places of the list whose entry is a code that is present
PresentEntries == { i \in 1..Len(query) : IsListedCode(query[i]) /\ NamedBy(query[i]) # {} }

\* C24: safe_batch_query with a list of codes returns, without raising, one
\* record for each listed code that is a numeric string of 6 or 8 digits
\* present in the file, and skips blank and malformed entries.
C24_QueryByCodes ==
    (query_result.called /\ (query = <<>> \/ cached_all_data.built)) =>
        /\ query_result.ok
        /\ Len(query_result.value) = Cardinality(PresentEntries)
        /\ \A k \in 1..Len(query_result.value) :
              \E i \in PresentEntries : query_result.value[k].full_code \in NamedBy(query[i])

\* what the call does: it raises as soon as a listed code is present, and
\* returns the empty list when none is (blank and malformed entries skipped)
C24_RaisesOnFirstHit ==
    (query_result.called /\ (query = <<>> \/ cached_all_data.built)) =>
        IF PresentEntries = {} THEN query_result.ok /\ query_result.value = <<>>
        ELSE ~query_result.ok

----------------------------------------------------------------------------
(* C28 *)

\* the projection a fresh read of the file as it was at the last query gives
FreshAtQuery == AllDataOf(parse_content(at_call.live.content))

\* the last query was answered from the cached projection
AnsweredFromCache ==
    (query_result.called /\ query # <<>> /\ cached_all_data.built) =>
        /\ query_result.ok = QueryLoop(query, cached_all_data.value).ok
        /\ query_result.value = QueryLoop(query, cached_all_data.value).value

----------------------------------------------------------------------------
(* C25 *)

\* the smaller of two numbers
Min(a, b) == IF a <= b THEN a ELSE b

\* the list is the last k entries of the history as it was at the call, in
\* the order appended
IsLastOf(list, k) ==
    /\ Len(list) = k
    /\ \A i \in 1..k : list[i] = trail.history[Len(trail.history) - k + i]

\* C25: audit_trail(limit) returns the last min(limit, n) entries of the
\* n-entry history, in the order they were appended, for every limit >= 0;
\* never more than limit entries, and the empty list for an empty history.
C25_AuditTrail ==
    trail.called =>
        /\ IsLastOf(trail.value, Min(trail.limit, Len(trail.history)))
        /\ Len(trail.value) <= trail.limit

\* the same for the limits of at least 1; the history itself is append-only
\* up to its truncation: consecutive entries, at most HistoryLimit of them
C25_PositiveLimit ==
    /\ trail.called /\ trail.limit >= 1 =>
          IsLastOf(trail.value, Min(trail.limit, Len(trail.history)))
    /\ trail.called /\ trail.history = <<>> => trail.value = <<>>
    /\ Len(operation_history) <= HistoryLimit
    /\ \A i \in 1..(Len(operation_history) - 1) :
          operation_history[i + 1] = operation_history[i] + 1

----------------------------------------------------------------------------
(* C26 *)

\* create_backup raised at the start of chunk i: mark.dat did not exist
BackupFailed(i) == ~chunk_log[i].before.exists

\* C26: if creating the backup at the start of a chunk fails, the chunk is
\* recorded as failed with the backup error, without backup path, without
\* items and with rolled_back = false; it neither loads the file nor saves
\* data, and the live file and the backup directory stay as they were.
C26_BackupFailure ==
    /\ Len(chunk_log) = Len(result.chunk_results)
    /\ \A i \in Processed :
          BackupFailed(i) =>
             /\ result.chunk_results[i]
                  = ChunkResult(FALSE, <<>>, <<>>, <<"backup">>, <<>>, FALSE)
             /\ chunk_log[i].ops = <<>>
             /\ chunk_log[i].to_save = <<>>
             /\ chunk_log[i].after = chunk_log[i].before
    /\ (chunk_log # <<>> /\ \A i \in Processed : BackupFailed(i)) =>
          /\ io = <<>>
          /\ Fs(live, backups) = at_call
          /\ result.rolled_back_chunks = 0
          /\ result.failed_chunks = Len(chunk_log)

\* a call went through two chunks whose backups both failed
C26_Witness ==
    /\ phase = "returned"
    /\ Len(chunk_log) = 2
    /\ BackupFailed(1) /\ BackupFailed(2)
    /\ at_call.backups # EmptyDict
    /\ args.config.auto_rollback

----------------------------------------------------------------------------
(* C27 *)

\* the chunks of a list of chunks, one after the other
RECURSIVE Concat(_)
Concat(list) == IF list = <<>> THEN <<>> ELSE Head(list) \o Concat(Tail(list))

\* the chunk_data of the chunks processed so far, in the order processed
ProcessedData == [i \in Processed |-> chunk_log[i].chunk_data]

\* the loop left at a failed chunk (break at line 195)
StoppedEarly ==
    /\ ~args.config.continue_on_chunk_failure
    /\ chunk_log # <<>>
    /\ ~result.chunk_results[Len(chunk_log)].success

\* the chunks still to process are consecutive slices: all but the last of
\* exactly chunk_size items, the last of 1..chunk_size items
WellSized(list) ==
    \A i \in 1..Len(list) :
        /\ list[i] # <<>>
        /\ Len(list[i]) <= args.config.chunk_size
        /\ i < Len(list) => Len(list[i]) = args.config.chunk_size

C27_WitnessShortLast ==
    /\ phase = "running"
    /\ chunk_log = <<>>
    /\ Len(chunks) = 1
    /\ Len(chunks[1]) < args.config.chunk_size

----------------------------------------------------------------------------
(* C29 *)

\* the file holds a record of the code in the section
SectionHas(f, section, code) ==
    /\ f.exists
    /\ section \in DOMAIN parse_content(f.content)
    /\ convert_to_8digit(code).value \in DOMAIN parse_content(f.content)[section]

TargetSections ==
    { args.config.target_sections[i] : i \in 1..Len(args.config.target_sections) }

\* the code was in every target section in file f0 and is in none in file f1
RemovedFromAll(code, f0, f1) ==
    \A section \in TargetSections :
        SectionHas(f0, section, code) /\ ~SectionHas(f1, section, code)

\* every code reported successful, by a chunk or by the call, was removed
\* from every target section
SuccessOnlyIfRemoved ==
    /\ \A i \in Processed :
          \A k \in 1..Len(result.chunk_results[i].successful_items) :
              /\ \A section \in TargetSections :
                    SectionHas(chunk_log[i].before, section,
                               result.chunk_results[i].successful_items[k])
              /\ result.chunk_results[i].success =>
                    RemovedFromAll(result.chunk_results[i].successful_items[k],
                                   chunk_log[i].before, chunk_log[i].after)
    /\ \A k \in 1..Len(result.successful_items) :
          RemovedFromAll(result.successful_items[k], at_call.live, live)

\* every code of the call was in every target section and has been removed
\* from it
AllRemoved ==
    \A i \in 1..Len(args.stock_codes) :
        RemovedFromAll(args.stock_codes[i], at_call.live, live)

AllChunksSuccessful ==
    /\ result.failed_chunks = 0
    /\ result.successful_chunks = result.total_chunks
    /\ \A i \in 1..Len(result.chunk_results) : result.chunk_results[i].success

RateIs100 == result.overall_success_rate.num = 100 * result.overall_success_rate.den

\* C29: in section-mode batch delete a code is reported successful only if it
\* was removed from every one of its target sections; and when every code was
\* present in and removed from every target section, one or several, all
\* chunks are successful and overall_success_rate is 100.
C29_SectionDelete ==
    phase = "returned" =>
        /\ SuccessOnlyIfRemoved
        /\ AllRemoved => AllChunksSuccessful /\ RateIs100

\* no two codes of the call name the same record
DistinctRecords ==
    \A i, j \in 1..Len(args.stock_codes) :
        i # j => convert_to_8digit(args.stock_codes[i]).value
                   # convert_to_8digit(args.stock_codes[j]).value

\* what holds: success only after removal from every target section; the
\* rate of a call that removed every code, all naming different records, is
\* 100 divided by the number of target sections
C29_RatePerSection ==
    phase = "returned" =>
        /\ SuccessOnlyIfRemoved
        /\ AllRemoved /\ DistinctRecords =>
              /\ AllChunksSuccessful
              /\ result.overall_success_rate.num * Len(args.config.target_sections)
                   = 100 * result.overall_success_rate.den

----------------------------------------------------------------------------
(* C30 *)

\* the '/'-separated tags of a TIPWORD value; an empty value has none
TagsOf(value) == IF value = <<>> THEN <<>> ELSE Split(value, "/")

\* the value contains at least one of the tags
ContainsTag(value, tags) ==
    \E j \in 1..Len(TagsOf(value)) : TagListed(TagsOf(value)[j], tags)

\* the tags of the value that are not to be removed, in their original order
Remaining(value, tags) ==
    SelectSeq(TagsOf(value), LAMBDA tag : ~TagListed(tag, tags))

\* the chunks whose map was saved
SavedChunks == { i \in Processed : result.chunk_results[i].success }

\* two codes name the same record
SameRecord(c1, c2) ==
    /\ convert_to_8digit(c1).ok /\ convert_to_8digit(c2).ok
    /\ convert_to_8digit(c1).value = convert_to_8digit(c2).value

\* the map has a TIPWORD record of the code
InMap(d, code) ==
    /\ convert_to_8digit(code).ok
    /\ TIPWORD \in DOMAIN d
    /\ convert_to_8digit(code).value \in DOMAIN d[TIPWORD]

ValueIn(d, code) ==
    IF InMap(d, code) THEN d[TIPWORD][convert_to_8digit(code).value] ELSE <<>>

\* the code is listed in the items with the text
ListedIn(items, code, text) ==
    \E j \in 1..Len(items) : items[j].code = code /\ items[j].text = text

\* what the claim says of one code of a saved chunk
StepAsClaimed(i, k) ==
    LET st == chunk_log[i].steps[k]
        left == Remaining(st.old, st.tags)
    IN IF st.had /\ ContainsTag(st.old, st.tags)
       THEN /\ st.success
            /\ left # <<>> => st.has /\ st.new = Join(left, "/")
            /\ left = <<>> => ~st.has
            /\ ListedIn(result.chunk_results[i].successful_items, st.code, "removed")
            /\ ListedIn(result.successful_items, st.code, "removed")
       ELSE /\ ~st.success
            /\ st.has = st.had /\ st.new = st.old
            /\ \E j \in 1..Len(result.chunk_results[i].failed_items) :
                  result.chunk_results[i].failed_items[j].code = st.code
            /\ ~ListedIn(result.chunk_results[i].successful_items, st.code, "removed")

\* each code of the chunk finds its record as the file had it or as the last
\* earlier code of the chunk naming the same record left it
StepStartsFrom(i, k) ==
    LET steps == chunk_log[i].steps
        earlier == { j \in 1..(k - 1) : SameRecord(steps[j].code, steps[k].code) }
    IN IF earlier = {}
       THEN /\ steps[k].had = InMap(chunk_log[i].loaded, steps[k].code)
            /\ steps[k].old = ValueIn(chunk_log[i].loaded, steps[k].code)
       ELSE LET j == CHOOSE m \in earlier : \A n \in earlier : n <= m
            IN /\ steps[k].had = steps[j].has
               /\ steps[k].old = steps[j].new

\* the saved map: the records named by the chunk as its codes left them,
\* everything else as loaded from the file
SavedMap(i) ==
    LET steps == chunk_log[i].steps
        from == chunk_log[i].loaded
        to == chunk_log[i].data
        named(section, key) ==
            /\ section = TIPWORD
            /\ \E k \in 1..Len(steps) :
                  /\ convert_to_8digit(steps[k].code).ok
                  /\ convert_to_8digit(steps[k].code).value = key
    IN /\ from = parse_content(chunk_log[i].before.content)
       /\ chunk_log[i].after.content = save_content(to)
       /\ Len(steps) = Len(chunk_log[i].chunk_data)
       /\ \A k \in 1..Len(steps) :
             /\ steps[k].code = chunk_log[i].chunk_data[k].code
             /\ steps[k].tags = chunk_log[i].chunk_data[k].tags
             /\ (\A m \in (k + 1)..Len(steps) : ~SameRecord(steps[m].code, steps[k].code))
                  => /\ InMap(to, steps[k].code) = steps[k].has
                     /\ ValueIn(to, steps[k].code) = steps[k].new
       /\ DOMAIN from \subseteq DOMAIN to
       /\ \A section \in DOMAIN to :
             \A key \in (DOMAIN to[section])
                          \cup (IF section \in DOMAIN from THEN DOMAIN from[section] ELSE {}) :
                 ~named(section, key) =>
                    /\ section \in DOMAIN from
                    /\ key \in DOMAIN from[section] /\ key \in DOMAIN to[section]
                    /\ to[section][key] = from[section][key]

\* C30: in batch_delete_tipwords, for each code of a chunk that is saved: if
\* the code's TIPWORD value contains at least one of the tags to remove, the
\* value in the saved map becomes its remaining '/'-separated tags in their
\* original order, or the record is deleted when no tag remains, and the
\* code is reported successful; if none of the tags is present or the code
\* has no TIPWORD record, the code is reported failed and its record is
\* unchanged.
C30_TipwordDelete ==
    /\ Len(chunk_log) = Len(result.chunk_results)
    /\ \A i \in SavedChunks :
          /\ SavedMap(i)
          /\ \A k \in 1..Len(chunk_log[i].steps) :
                StepStartsFrom(i, k) /\ StepAsClaimed(i, k)

\* a saved chunk of two codes: "x/z/x/y" without y and x became "z", and a
\* code without TIPWORD record failed
C30_Witness ==
    /\ phase = "returned"
    /\ \E i \in SavedChunks :
          /\ Len(chunk_log[i].steps) = 2
          /\ chunk_log[i].steps[1].success
          /\ chunk_log[i].steps[1].old = <<"x", "/", "z", "/", "x", "/", "y">>
          /\ chunk_log[i].steps[1].new = <<"z">>
          /\ ~chunk_log[i].steps[2].success
          /\ ~chunk_log[i].steps[2].had
          /\ ValueIn(parse_content(live.content), chunk_log[i].steps[1].code) = <<"z">>

\* a saved chunk whose second code removed the last tag of the record
C30_WitnessDeleted ==
    /\ phase = "returned"
    /\ \E i \in SavedChunks :
          /\ Len(chunk_log[i].steps) = 2
          /\ chunk_log[i].steps[2].success
          /\ chunk_log[i].steps[2].had /\ chunk_log[i].steps[2].old = <<"z">>
          /\ ~chunk_log[i].steps[2].has
          /\ ~InMap(parse_content(live.content), chunk_log[i].steps[2].code)

\* a saved chunk left the record with one empty tag: the map holds the empty
\* value and the file written has no line for it
C30_WitnessEmptyTag ==
    /\ phase = "returned"
    /\ \E i \in SavedChunks :
          /\ chunk_log[i].steps[1].success
          /\ chunk_log[i].steps[1].old = <<"/", "x">>
          /\ chunk_log[i].steps[1].has /\ chunk_log[i].steps[1].new = <<>>
          /\ ~InMap(parse_content(live.content), chunk_log[i].steps[1].code)

----------------------------------------------------------------------------
(* C32 *)

\* the items of the chunks 1..n that were saved to the file
RECURSIVE ItemsOfSaved(_)
ItemsOfSaved(n) ==
    IF n = 0 THEN <<>>
    ELSE ItemsOfSaved(n - 1)
         \o (IF Saved(n) THEN result.chunk_results[n].successful_items ELSE <<>>)

\* C32: a chunk is marked success = true only if its section map was written
\* to the live file; when save_data fails the chunk is not successful and its
\* items are not added to the result's successful_items.
C32_SuccessMeansSaved ==
    /\ Len(chunk_log) = Len(result.chunk_results)
    /\ \A i \in Processed : result.chunk_results[i].success => Saved(i)
    /\ result.successful_items = ItemsOfSaved(Len(chunk_log))

\* what holds: a chunk marked successful attempted the save, and the file
\* then has the map written or is empty
C32_SuccessMeansSaveAttempted ==
    /\ Len(chunk_log) = Len(result.chunk_results)
    /\ \A i \in Processed :
          result.chunk_results[i].success =>
             /\ \E j \in 1..Len(chunk_log[i].ops) : chunk_log[i].ops[j] = "write"
             /\ chunk_log[i].after.exists
             /\ chunk_log[i].after.content \in {chunk_log[i].to_save, <<>>}

----------------------------------------------------------------------------
(* C33 *)

\* how often the code occurs in the list
Occurrences(list, code) == Cardinality({ j \in 1..Len(list) : list[j] = code })

\* C33: when safe_batch_update processes every chunk
\* (continue_on_chunk_failure = true), each input code is in exactly one of
\* result.successful_items and result.failed_items, so the two lists together
\* have total_items entries, for every success_threshold.
C33_ItemAccounting ==
    (phase = "returned" /\ args.config.continue_on_chunk_failure) =>
        /\ \A i \in 1..Len(args.updates) :
              Occurrences(result.successful_items, args.updates[i].code)
                + Occurrences(result.failed_items, args.updates[i].code) = 1
        /\ Len(result.successful_items) + Len(result.failed_items) = result.total_items

\* what holds: no code is listed twice, and the listed codes are the
\* successful items of the successful chunks and the failed items of the
\* failed ones
C33_ListedAtMostOnce ==
    (phase = "returned" /\ args.config.continue_on_chunk_failure) =>
        /\ \A i \in 1..Len(args.updates) :
              Occurrences(result.successful_items, args.updates[i].code)
                + Occurrences(result.failed_items, args.updates[i].code) <= 1
        /\ Len(result.successful_items) + Len(result.failed_items) <= result.total_items

----------------------------------------------------------------------------
(* C34 *)

\* C34: whenever create_backup returns a path, a backup exists at that path
\* and holds the content the live file had at the call; the pruning never
\* deletes the backup just created, also when 30 or more other backups are as
\* new as or newer than the live file.
C34_BackupExists ==
    created.ok =>
        /\ created.path[1] \in DOMAIN backups
        /\ backups[created.path[1]].content = at_call.live.content

\* what holds: the backup just created survives when fewer than 30 other
\* backups are as new as or newer than the live file; if it is there it holds
\* the content and the modification time of the live file
C34_ExistsUnlessOldest ==
    created.ok =>
        /\ Cardinality({ n \in DOMAIN at_call.backups \ {created.path[1]} :
                           at_call.backups[n].mtime >= at_call.live.mtime }) < max_backups
              => created.path[1] \in DOMAIN backups
        /\ created.path[1] \in DOMAIN backups =>
              /\ backups[created.path[1]].content = at_call.live.content
              /\ backups[created.path[1]].mtime = at_call.live.mtime

----------------------------------------------------------------------------
(* C35 *)

\* the (code, value) records of a section obtained by parsing the file
RecordsOf(f, section) ==
    IF f.exists /\ section \in DOMAIN parse_content(f.content)
    THEN { <<code, parse_content(f.content)[section][code]>> :
           code \in DOMAIN parse_content(f.content)[section] }
    ELSE {}

\* the section the call updates
UpdatedSection == Upper(Strip(args.section))

\* the call returned with every chunk successful
SuccessfulCall ==
    /\ phase = "returned"
    /\ result.total_chunks >= 1
    /\ result.successful_chunks = result.total_chunks

\* C35: a successful safe_batch_update on section S changes only section S
\* of the file: for every other section the records obtained by parsing the
\* live file after the call are those obtained by parsing it before the call.
C35_OtherSectionsUnchanged ==
    SuccessfulCall =>
        \A section \in SectionSet \ {UpdatedSection} :
            RecordsOf(live, section) = RecordsOf(at_call.live, section)

\* the records of a section with a value that is not empty or blank
NonBlankRecordsOf(f, section) ==
    { r \in RecordsOf(f, section) : Strip(r[2]) # <<>> }

\* what holds: when every chunk was written, the other sections keep their
\* records with a non-blank value and gain none
C35_NonBlankUnchanged ==
    (SuccessfulCall /\ \A i \in Processed : Saved(i)) =>
        \A section \in SectionSet \ {UpdatedSection} :
            /\ RecordsOf(live, section) = NonBlankRecordsOf(at_call.live, section)

----------------------------------------------------------------------------
(* C36 *)

\* the file has the update of the item in the updated section: the value
\* itself, or the value among the tags of a TIPWORD record
UpdatePresent(f, item) ==
    /\ f.exists
    /\ convert_to_8digit(item.code).ok
    /\ \E r \in RecordsOf(f, UpdatedSection) :
          /\ r[1] = convert_to_8digit(item.code).value
          /\ IF UpdatedSection = TIPWORD
             THEN \E k \in 1..Len(Split(r[2], "/")) : Split(r[2], "/")[k] = item.value
             ELSE r[2] = item.value

\* the items of chunk i that the chunk lists as successful
SuccessfulUpdates(i) ==
    { chunk_log[i].chunk_data[k] : k \in
        { n \in 1..Len(chunk_log[i].chunk_data) :
            \E m \in 1..Len(result.chunk_results[i].successful_items) :
                result.chunk_results[i].successful_items[m]
                  = chunk_log[i].chunk_data[n].code } }

\* the updates of the chunks in the set before chunk j are in the file as
\* chunk j left it, and in the file when the call has returned
EarlierUpdatesKept(j, earlier) ==
    \A i \in earlier : \A item \in SuccessfulUpdates(i) :
        /\ UpdatePresent(chunk_log[j].after, item)
        /\ phase = "returned" => UpdatePresent(live, item)

\* C36: rolling back a chunk does not undo earlier chunks: after a chunk
\* fails and is rolled back, the updates of every earlier chunk marked
\* successful are still in the live file, and they are when the call returns.
C36_RollbackKeepsEarlier ==
    /\ Len(chunk_log) = Len(result.chunk_results)
    /\ \A j \in Processed :
          result.chunk_results[j].rolled_back =>
             EarlierUpdatesKept(j, { i \in 1..(j - 1) : result.chunk_results[i].success })

\* what holds: the same for the earlier chunks that were written to the
\* file; the rollback restores the file as the chunk found it
C36_RollbackKeepsSaved ==
    /\ Len(chunk_log) = Len(result.chunk_results)
    /\ \A j \in Processed :
          result.chunk_results[j].rolled_back =>
             /\ chunk_log[j].after.content = chunk_log[j].before.content
             /\ EarlierUpdatesKept(j, { i \in 1..(j - 1) :
                                           result.chunk_results[i].success /\ Saved(i) })


----------------------------------------------------------------------------
(* C37: the manager's update methods and the service's update_section_value *)

\* C37: for every section S, stock code, value and section map, the
\* manager's update_mark / update_tip / update_tipword / update_tipcolor /
\* update_time and update_section_value called with S on an equal map leave
\* equal maps and report the same success or failure
C37_UpdateRulesAgree ==
    op.name = "update_both" =>
        /\ op.manager.data = op.service.data
        /\ op.manager.ret = op.service.ret

\* both merged a TIPWORD value into a non-empty stored one
C37_Witness ==
    /\ op.name = "update_both"
    /\ op.section = TIPWORD
    /\ op.manager.ret
    /\ op.value # <<>>
    /\ \E c \in FullCodePool :
          /\ GetValue(data_before, TIPWORD, c) # <<>>
          /\ GetValue(data, TIPWORD, c)
               = GetValue(data_before, TIPWORD, c) \o <<"/">> \o op.value

\* both refused a code that names no market and left the map alone
C37_WitnessRefused ==
    /\ op.name = "update_both"
    /\ op.code = C123456
    /\ ~op.manager.ret
    /\ ~op.service.ret
    /\ data = data_before

\* both created a section the map did not have
C37_WitnessNewSection ==
    /\ op.name = "update_both"
    /\ op.manager.ret
    /\ op.section \notin DOMAIN data_before
    /\ op.section \in DOMAIN op.service.data

----------------------------------------------------------------------------
(* C38: the up-front validation of a batch and convert_to_8digit *)

\* the items that failed in a processed chunk
FailedCodes ==
    UNION { { result.chunk_results[i].failed_items[k] :
                k \in 1..Len(result.chunk_results[i].failed_items) } :
            i \in 1..Len(result.chunk_results) }

\* the batch passed _validate_inputs: every code was accepted by
\* validate_stock_code with allow_short = true
PassedValidation ==
    /\ phase \in {"running", "returned"}
    /\ \A i \in 1..Len(args.updates) :
          validate_stock_code(args.updates[i].code, TRUE).ok

\* C38: every stock code that validate_stock_code accepts with
\* allow_short = true is accepted by convert_to_8digit, so no item of a batch
\* that passed the up-front validation fails because its code cannot be
\* normalized to 8 digits.
C38_ValidatedCodesNormalize ==
    PassedValidation =>
        /\ \A i \in 1..Len(args.updates) :
              convert_to_8digit(args.updates[i].code).ok
        /\ \A code \in FailedCodes : convert_to_8digit(code).ok

\* what holds: a validated code is refused by convert_to_8digit exactly
\* when it has six digits the first of which is not "6", "0", "3", "4" or
\* "8", or is padded, and these are the items that fail
C38_UnknownMarketFails ==
    PassedValidation =>
        /\ \A i \in 1..Len(args.updates) :
              LET code == args.updates[i].code IN
              convert_to_8digit(code).ok
                <=> /\ Strip(code) = code
                    /\ (Len(code) = 6 => code[1] \in {"6", "0", "3", "4", "8"})
        /\ \A code \in FailedCodes : ~convert_to_8digit(code).ok

----------------------------------------------------------------------------
(* C39: a save that fails *)

\* C39: if save_data returns false, the target file still has the content
\* it had before the call: a failed save (a value GBK cannot encode) never
\* truncates or partially overwrites the file.
C39_FailedSaveKeepsFile ==
    \A i \in 1..Len(chunk_log) :
        ~chunk_log[i].ret => chunk_log[i].after.live = chunk_log[i].before.live

\* what holds: a save fails exactly when the text has a character GBK cannot
\* encode; the file is then empty, also when it did not exist before, and
\* the backup the call made first holds the content the file had
C39_FailedSaveTruncates ==
    \A i \in 1..Len(chunk_log) :
        LET c == chunk_log[i] IN
        /\ c.ret <=> GbkEncodable(save_content(c.data))
        /\ c.ret => c.after.live = File(save_content(c.data), c.time)
        /\ ~c.ret =>
              /\ c.after.live = File(<<>>, c.time)
              /\ c.before.live.exists =>
                    /\ c.time \in DOMAIN c.after.backups
                    /\ c.after.backups[c.time].content = c.before.live.content

----------------------------------------------------------------------------
(* C40: safe_update and records whose key is not 8 digits *)

\* the keys of the key=value lines under a known section header that are not
\* exactly 8 digits; st = [bad, cur], cur as in ParseLine
BadKeyLine(st, raw) ==
    LET line == Strip(raw) IN
    IF line = <<>> THEN st
    ELSE IF Head(line) = "[" /\ line[Len(line)] = "]"
    THEN [st EXCEPT !.cur = IF SubSeq(line, 2, Len(line) - 1) \in SectionSet
                             THEN <<SubSeq(line, 2, Len(line) - 1)>> ELSE <<>>]
    ELSE IF IndexOf(line, "=") > 0 /\ st.cur # <<>>
    THEN LET key == Strip(SubSeq(line, 1, IndexOf(line, "=") - 1)) IN
         IF Len(key) = 8 /\ IsDigit(key) THEN st
         ELSE [st EXCEPT !.bad = @ \cup {key}]
    ELSE st

RECURSIVE BadKeyLines(_, _)
BadKeyLines(st, lines) ==
    IF lines = <<>> THEN st
    ELSE BadKeyLines(BadKeyLine(st, Head(lines)), Tail(lines))

BadKeysIn(f) ==
    IF ~f.exists THEN {}
    ELSE BadKeyLines([bad |-> {}, cur |-> <<>>], Split(f.content, "\n")).bad

\* safe_update returned success = true for a callable that returned True
SucceededWithTrue ==
    /\ phase = "returned"
    /\ su_result.success
    /\ su_func.returns = "True"

\* C40: if safe_update returns success = true for a callable that returned
\* True, the live file has no key=value record under a known section header
\* whose key is not exactly 8 digits; a callable that writes such a record
\* always leads to a rollback to the pre-update backup.
C40_NoBadKeyAfterSuccess ==
    /\ SucceededWithTrue => BadKeysIn(live) = {}
    /\ (phase = "returned" /\ su_trace.ran /\ su_func.returns = "True"
          /\ su_func.effect = "write_bad_key") =>
            /\ su_result.rolled_back = <<TRUE>>
            /\ live.content = at_call.live.content

\* what holds: the reloaded map of a successful call has no invalid code,
\* because parse_content drops the lines with such keys, and no call is
\* rolled back; the file keeps what the callable wrote
C40_BadKeysNeverSeen ==
    /\ SucceededWithTrue =>
          /\ invalid_codes(parse_content(live.content)) = {}
          /\ live.content = apply_effect(at_call, su_func.effect, live.mtime).live.content
    /\ phase = "returned" => su_result.rolled_back = <<>>

----------------------------------------------------------------------------
(* C31: batch_clear_empty restricted to target sections *)

\* the sections the call was restricted to
ScannedSections ==
    { args.config.target_sections[i] : i \in 1..Len(args.config.target_sections) }

RestrictedClear == phase = "returned" /\ args.config.target_sections # <<>>

\* an empty or blank value was found in a scanned section
EmptyFound ==
    \E section \in ScannedSections :
        RecordsOf(at_call.live, section) # NonBlankRecordsOf(at_call.live, section)

\* C31: batch_clear_empty restricted to target sections deletes empty or
\* blank values only in those sections: the entries of every other section,
\* the empty-valued ones included, are the same in the file after the call
\* as before; when no empty value is found in the scanned sections the file
\* is not rewritten and the result reports 100% success.
C31_ClearOnlyTargets ==
    RestrictedClear =>
        /\ \A section \in ScannedSections :
              RecordsOf(live, section) = NonBlankRecordsOf(at_call.live, section)
        /\ \A section \in SectionSet \ ScannedSections :
              RecordsOf(live, section) = RecordsOf(at_call.live, section)
        /\ ~EmptyFound =>
              /\ live = at_call.live
              /\ result.overall_success_rate = [num |-> 100, den |-> 1]

\* what holds: when an empty value is found in a scanned section the file
\* is rewritten without the empty or blank values of every section; when
\* none is found the file is not rewritten; both report 100% success
C31_ClearsEverySection ==
    RestrictedClear =>
        /\ EmptyFound =>
              \A section \in SectionSet :
                  RecordsOf(live, section) = NonBlankRecordsOf(at_call.live, section)
        /\ ~EmptyFound => live = at_call.live
        /\ result.overall_success_rate = [num |-> 100, den |-> 1]
        /\ result.total_items = Len(result.successful_items) \/ ~EmptyFound

====
